---------------------------- MODULE Spec2Model ----------------------------
(***************************************************************************)
(* A model of the LC-3 virtual machine: the memory with its keyboard       *)
(* registers, the register file, the fourteen instructions, the six trap   *)
(* routines, the image loader, the fetch/decode/dispatch loop and the      *)
(* top-level driver with its terminal setup and shutdown.                  *)
(*                                                                         *)
(* Words are the naturals 0 .. 65535; every arithmetic step keeps the      *)
(* 16-bit width of the u16 it models.  Results of fallible functions are   *)
(* records with an err field: NoErr for Ok, the name of the VMError        *)
(* variant for Err, and the outcomes that are not a returned value         *)
(* ("Panic", "Hang") for a Rust panic and for a call that never returns.   *)
(***************************************************************************)
EXTENDS Integers, Sequences, FiniteSets, TLC

(***************************************************************************)
(* Bounds of the model.                                                    *)
(***************************************************************************)
\* data words of a generated image
MaxImageWords == 2
\* fetch iterations of one run
MaxSteps == 4
\* bytes the host input holds
MaxInput == 1
\* host output calls (write_all, flush) that succeed before one fails
MaxOutOk == 1
\* data bytes of an image given to the loader alone
MaxLoadBytes == 6
\* operations on a memory taken alone
MaxMemOps == 3

(***************************************************************************)
(* Program constants.                                                      *)
(***************************************************************************)
MEMORY_MAX == 65536
REGS_COUNT == 10
PC_START == 12288
NULL == 0
ONE_BIT_MASK == 1
THREE_BIT_MASK == 7
FIVE_BIT_MASK == 31
SIX_BIT_MASK == 63
EIGHT_BIT_MASK == 255
NINE_BIT_MASK == 511
ELEVEN_BIT_MASK == 2047
\* Register::index
R0 == 0
R7 == 7
PC == 8
Cond == 9
\* MemoryRegister::address
KeyboardStatus == 65024
KeyboardData == 65026
\* u16::MAX, the literal 0xFFFF of sign_extend
WORD_MAX == 65535
\* the width of a u16 in bits
WORD_BITS == 16

Word == 0 .. WORD_MAX
Byte == 0 .. EIGHT_BIT_MASK
NoErr == "none"

(***************************************************************************)
(* u16 arithmetic.                                                         *)
(***************************************************************************)
\* an addition that does not wrap
wrapping_add_wide(a, b) == a + b

wrapping_add(a, b) == (a + b) % MEMORY_MAX

RECURSIVE BitAnd(_, _)
BitAnd(a, b) ==
    IF a = 0 \/ b = 0 THEN 0
    ELSE (a % 2) * (b % 2) + 2 * BitAnd(a \div 2, b \div 2)

BitOr(a, b) == a + b - BitAnd(a, b)

BitNot(a) == WORD_MAX - a

\* x >> n for n < 16
Shr(x, n) == x \div (2 ^ n)

\* (x << n) truncated to a u16, for n < 16
Shl(x, n) == (x * (2 ^ n)) % MEMORY_MAX

\* u16::from_be_bytes
from_be_bytes(byte0, byte1) == byte0 * 256 + byte1



(***************************************************************************)
(* The state.                                                              *)
(***************************************************************************)
VARIABLES
    mem,        \* Memory::inner: the cells that are not 0, by address
    regs,       \* Registers::inner, indexed by Register::index
    running,    \* VM::running, main's running_flag
    consumed,   \* the bytes read from the host input so far
    output,     \* what the writer of the trap routines received: bytes and Flush
    printed,    \* what print! wrote to the process's standard output
    res,        \* what the dispatch loop returned: NoErr while it runs
    phase,      \* where the driver is
    args,       \* the image files named on the command line, each its bytes
    termios,    \* the console's attributes
    stash,      \* the attributes setup returned
    exit_code,  \* how the process ended
    last,       \* the locals of the last fetch iteration: op_code, instr_addr, instr
    steps,      \* fetch iterations so far
    build,      \* the build profile: overflow checks on (debug) or off (release)
    call        \* the function called on its own, its arguments and its result

vars == <<mem, regs, running, consumed, output, printed, res, phase, args,
          termios, stash, exit_code, last, steps, build, call>>

Builds == {"debug", "release"}

(***************************************************************************)
(* utils.rs: sign_extend.  A shift of a u16 by 16 or more overflows: the   *)
(* debug build panics, the release build shifts by the amount modulo 16.   *)
(***************************************************************************)
Ret(val) == [err |-> NoErr, val |-> val]
Fail(err) == [err |-> err, val |-> 0]

\* sign_extend with a saturating subtraction: the width 0 taken for 1
sign_extend_saturating(x, bit_count) ==
    LET bitcount_sub == IF bit_count = 0 THEN 0 ELSE bit_count - 1 IN
    IF bitcount_sub >= WORD_BITS /\ build = "debug" THEN Fail("Panic")
    ELSE LET msb == Shr(x, bitcount_sub % WORD_BITS) IN
         IF msb # 0
         THEN IF bit_count >= WORD_BITS /\ build = "debug" THEN Fail("Panic")
              ELSE Ret(BitOr(x, Shl(WORD_MAX, bit_count % WORD_BITS)))
         ELSE Ret(x)

sign_extend(x, bit_count) ==
    IF bit_count = 0 THEN Fail("Arithmetic")
    ELSE LET bitcount_sub == bit_count - 1 IN
         IF bitcount_sub >= WORD_BITS /\ build = "debug" THEN Fail("Panic")
         ELSE LET msb == Shr(x, bitcount_sub % WORD_BITS) IN
              IF msb # 0
              THEN IF bit_count >= WORD_BITS /\ build = "debug" THEN Fail("Panic")
                   ELSE Ret(BitOr(x, Shl(WORD_MAX, bit_count % WORD_BITS)))
              ELSE Ret(x)

(***************************************************************************)
(* hardware.rs: the register file and the condition flags.                 *)
(***************************************************************************)
Register == 0 .. (REGS_COUNT - 1)

Registers_new == [i \in Register |-> 0]

Register_from_u16(n) == IF n \in Register THEN Ret(n) ELSE Fail("Conversion")

Pos == Shl(1, 0)
Zro == Shl(1, 1)
Neg == Shl(1, 2)

\* update_flags testing bit 14 where the code tests bit 15
update_flags_bit14(rs, r) ==
    IF rs[r] = 0 THEN [rs EXCEPT ![Cond] = Zro]
    ELSE IF Shr(rs[r], 14) = 1 THEN [rs EXCEPT ![Cond] = Neg]
    ELSE [rs EXCEPT ![Cond] = Pos]

update_flags(rs, r) ==
    IF rs[r] = 0 THEN [rs EXCEPT ![Cond] = Zro]
    ELSE IF Shr(rs[r], 15) = 1 THEN [rs EXCEPT ![Cond] = Neg]
    ELSE [rs EXCEPT ![Cond] = Pos]

(***************************************************************************)
(* hardware.rs: the memory.  Memory::new fills the 65,536 cells with 0; a  *)
(* memory is kept as the function of its cells that are not 0.             *)
(***************************************************************************)
Memory_new == <<>>

MemAt(m, a) == IF a \in DOMAIN m THEN m[a] ELSE 0

Put(m, a, v) ==
    IF v = 0 THEN [x \in DOMAIN m \ {a} |-> m[x]]
    ELSE [x \in DOMAIN m \cup {a} |-> IF x = a THEN v ELSE m[x]]

\* Memory::write on a memory: { err, mem }
Memory_write(m, mem_address, new_val) ==
    IF mem_address \in 0 .. (MEMORY_MAX - 1)
    THEN [err |-> NoErr, mem |-> Put(m, mem_address, new_val)]
    ELSE [err |-> "InvalidIndex", mem |-> m]

(***************************************************************************)
(* The machine a function works on: the VM's fields and the host streams.  *)
(* input is the host input still to come (a read past its end fails) and   *)
(* outOk the number of host output calls that will succeed before one      *)
(* fails (-1: all of them).                                                *)
(***************************************************************************)
Flush == 256
Unlimited == -1

Machine(m, rs, run, inp, ok) ==
    [mem |-> m, regs |-> rs, running |-> run, input |-> inp, consumed |-> <<>>,
     output |-> <<>>, printed |-> <<>>, outOk |-> ok, err |-> NoErr]

Out(s, val) == [s |-> s, val |-> val]
Err(s, e) == [s EXCEPT !.err = e]

\* utils.rs getchar: read_exact of one byte
getchar(s) ==
    IF s.input = <<>> THEN Out(Err(s, "STDINRead"), 0)
    ELSE Out([s EXCEPT !.input = Tail(s.input),
                       !.consumed = Append(s.consumed, Head(s.input))],
             Head(s.input))

\* utils.rs stdout_write: write_all of the buffer; a write the host refuses
\* delivers nothing
stdout_write(s, buffer) ==
    IF s.outOk = 0 THEN Err(s, "STDOUTWrite")
    ELSE [s EXCEPT !.output = s.output \o buffer,
                   !.outOk = IF s.outOk > 0 THEN s.outOk - 1 ELSE s.outOk]

\* utils.rs stdout_flush
stdout_flush(s) ==
    IF s.outOk = 0 THEN Err(s, "STDOUTFlush")
    ELSE [s EXCEPT !.output = Append(s.output, Flush),
                   !.outOk = IF s.outOk > 0 THEN s.outOk - 1 ELSE s.outOk]

SetMem(s, w) == IF w.err = NoErr THEN [s EXCEPT !.mem = w.mem] ELSE Err(s, w.err)

(***************************************************************************)
(* The ? operator: the next call is made only when the last one was Ok.    *)
(***************************************************************************)
write_q(s, buffer) == IF s.err # NoErr THEN s ELSE stdout_write(s, buffer)
flush_q(s) == IF s.err # NoErr THEN s ELSE stdout_flush(s)

(***************************************************************************)
(* Memory::read.  A read of the keyboard status writes 0x8000 there, reads *)
(* one byte from stdin() and writes it to the keyboard data cell.  held    *)
(* says what taking the lock of stdin does: NoErr when no one holds it;    *)
(* when the caller holds it (VM::trap does, through its routines), the     *)
(* second lock of the same thread never returns: it hangs or panics.       *)
(***************************************************************************)
\* a read that takes the cell after the one asked for
ReadCell_next(s, addr) ==
    IF s.err # NoErr THEN Out(s, 0)
    ELSE Out(s, MemAt(s.mem, wrapping_add(addr, 1)))

\* self.inner.get(index)
ReadCell(s, addr) ==
    IF s.err # NoErr THEN Out(s, 0)
    ELSE IF addr \in 0 .. (MEMORY_MAX - 1) THEN Out(s, MemAt(s.mem, addr))
    ELSE Out(Err(s, "InvalidIndex"), 0)

\* a keyboard read that stores the byte in the status cell
KeyboardStore_status(buffer) ==
    IF buffer.s.err # NoErr THEN buffer.s
    ELSE SetMem(buffer.s, Memory_write(buffer.s.mem, KeyboardStatus, buffer.val))

\* self.write(MemoryRegister::KeyboardData, char)?, buffer the result of getchar
KeyboardStore(buffer) ==
    IF buffer.s.err # NoErr THEN buffer.s
    ELSE SetMem(buffer.s, Memory_write(buffer.s.mem, KeyboardData, buffer.val))

\* stdin() and getchar(&mut reader)?, s1 the machine after the write of the status
KeyboardRead(s1, held) ==
    IF s1.err # NoErr THEN Out(s1, 0)
    ELSE IF held # NoErr THEN Out(Err(s1, held), 0)
    ELSE getchar(s1)

\* a read that takes every cell as it is stored
Memory_read_stored(s, addr, held) == ReadCell(s, addr)

\* the status written once the byte is stored, s2 the machine after the store
StatusAfter(s2) ==
    IF s2.err # NoErr THEN s2
    ELSE SetMem(s2, Memory_write(s2.mem, KeyboardStatus, Shl(1, 15)))

\* a read of the keyboard status that writes the status after it has the byte
Memory_read_status_last(s, addr, held) ==
    IF addr = KeyboardStatus
    THEN ReadCell(StatusAfter(KeyboardStore(KeyboardRead(s, held))), addr)
    ELSE ReadCell(s, addr)

Memory_read(s, addr, held) ==
    IF addr = KeyboardStatus
    THEN ReadCell(
             KeyboardStore(
                 KeyboardRead(
                     SetMem(s, Memory_write(s.mem, KeyboardStatus, Shl(1, 15))), held)),
             addr)
    ELSE ReadCell(s, addr)

read_q(s, addr, held) == IF s.err # NoErr THEN Out(s, 0) ELSE Memory_read(s, addr, held)

(***************************************************************************)
(* memory_access.rs: mem_read, the read that polls the keyboard before it  *)
(* takes a byte.  check_key is in no source file: it is taken to say       *)
(* whether the host input has a byte to give.                              *)
(***************************************************************************)
check_key(s) == s.input # <<>>

\* a poll that leaves the status as it was when no key is there
mem_read_keeping_status(address, s) ==
    IF address = KeyboardStatus /\ check_key(s)
    THEN ReadCell(
             KeyboardStore(
                 KeyboardRead(
                     SetMem(s, Memory_write(s.mem, KeyboardStatus, Shl(1, 15))), NoErr)),
             address)
    ELSE ReadCell(s, address)

mem_read(address, s) ==
    IF address = KeyboardStatus
    THEN IF check_key(s)
         THEN ReadCell(
                  KeyboardStore(
                      KeyboardRead(
                          SetMem(s, Memory_write(s.mem, KeyboardStatus, Shl(1, 15))),
                          NoErr)),
                  address)
         ELSE ReadCell(SetMem(s, Memory_write(s.mem, KeyboardStatus, 0)), address)
    ELSE ReadCell(s, address)

(***************************************************************************)
(* vm.rs: the instructions.  Each takes the machine and the instruction    *)
(* word and gives the machine after it, err set when it failed.            *)
(***************************************************************************)
SetReg(s, r, v) == [s EXCEPT !.regs[r] = v]

\* update_flags that adds the new flag to COND and leaves the old one set
VM_update_flags_or(s, r) ==
    [s EXCEPT !.regs[Cond] = BitOr(s.regs[Cond], update_flags(s.regs, r)[Cond])]

\* VM::update_flags
VM_update_flags(s, r) == [s EXCEPT !.regs = update_flags(s.regs, r)]

\* a register field of 4 bits
RegField_wide(instr, shift) == Register_from_u16(BitAnd(Shr(instr, shift), 15))

\* a 3-bit register field of the instruction, through Register::from_u16
RegField(instr, shift) == Register_from_u16(BitAnd(Shr(instr, shift), THREE_BIT_MASK))

\* an addition whose immediate operand is not sign-extended
add_unsigned_imm(s, instr) ==
    LET dr == RegField(instr, 9)
        sr1 == RegField(instr, 6)
        imm_flag == BitAnd(Shr(instr, 5), ONE_BIT_MASK)
        sr2 == Register_from_u16(BitAnd(instr, THREE_BIT_MASK))
    IN  IF imm_flag = 1
        THEN VM_update_flags(
                 SetReg(s, dr.val,
                        wrapping_add(s.regs[sr1.val], BitAnd(instr, FIVE_BIT_MASK))),
                 dr.val)
        ELSE VM_update_flags(
                 SetReg(s, dr.val, wrapping_add(s.regs[sr1.val], s.regs[sr2.val])),
                 dr.val)

add(s, instr) ==
    LET dr == RegField(instr, 9)
        sr1 == RegField(instr, 6)
        imm_flag == BitAnd(Shr(instr, 5), ONE_BIT_MASK)
        imm5 == sign_extend(BitAnd(instr, FIVE_BIT_MASK), 5)
        sr2 == Register_from_u16(BitAnd(instr, THREE_BIT_MASK))
    IN  IF dr.err # NoErr THEN Err(s, dr.err)
        ELSE IF sr1.err # NoErr THEN Err(s, sr1.err)
        ELSE IF imm_flag = 1
        THEN IF imm5.err # NoErr THEN Err(s, imm5.err)
             ELSE VM_update_flags(
                      SetReg(s, dr.val, wrapping_add(s.regs[sr1.val], imm5.val)), dr.val)
        ELSE IF sr2.err # NoErr THEN Err(s, sr2.err)
             ELSE VM_update_flags(
                      SetReg(s, dr.val, wrapping_add(s.regs[sr1.val], s.regs[sr2.val])),
                      dr.val)

not(s, instr) ==
    LET dr == RegField(instr, 9)
        sr == RegField(instr, 6)
    IN  IF dr.err # NoErr THEN Err(s, dr.err)
        ELSE IF sr.err # NoErr THEN Err(s, sr.err)
        ELSE VM_update_flags(SetReg(s, dr.val, BitNot(s.regs[sr.val])), dr.val)

\* a bitwise AND whose immediate operand is not sign-extended
and_unsigned_imm(s, instr) ==
    LET dr == RegField(instr, 9)
        sr1 == RegField(instr, 6)
        imm_flag == BitAnd(Shr(instr, 5), ONE_BIT_MASK)
        sr2 == Register_from_u16(BitAnd(instr, THREE_BIT_MASK))
    IN  IF imm_flag = 1
        THEN VM_update_flags(
                 SetReg(s, dr.val, BitAnd(s.regs[sr1.val], BitAnd(instr, FIVE_BIT_MASK))),
                 dr.val)
        ELSE VM_update_flags(
                 SetReg(s, dr.val, BitAnd(s.regs[sr1.val], s.regs[sr2.val])), dr.val)

and(s, instr) ==
    LET dr == RegField(instr, 9)
        sr1 == RegField(instr, 6)
        imm_flag == BitAnd(Shr(instr, 5), ONE_BIT_MASK)
        imm5 == sign_extend(BitAnd(instr, FIVE_BIT_MASK), 5)
        sr2 == Register_from_u16(BitAnd(instr, THREE_BIT_MASK))
    IN  IF dr.err # NoErr THEN Err(s, dr.err)
        ELSE IF sr1.err # NoErr THEN Err(s, sr1.err)
        ELSE IF imm_flag = 1
        THEN IF imm5.err # NoErr THEN Err(s, imm5.err)
             ELSE VM_update_flags(
                      SetReg(s, dr.val, BitAnd(s.regs[sr1.val], imm5.val)), dr.val)
        ELSE IF sr2.err # NoErr THEN Err(s, sr2.err)
             ELSE VM_update_flags(
                      SetReg(s, dr.val, BitAnd(s.regs[sr1.val], s.regs[sr2.val])), dr.val)

\* a branch taken only when the flags of the instruction are exactly COND
branch_exact(s, instr) ==
    LET pc_offset == sign_extend(BitAnd(instr, NINE_BIT_MASK), 9)
        cond_flag == BitAnd(Shr(instr, 9), THREE_BIT_MASK)
    IN  IF cond_flag = s.regs[Cond]
        THEN SetReg(s, PC, wrapping_add(s.regs[PC], pc_offset.val))
        ELSE s

branch(s, instr) ==
    LET pc_offset == sign_extend(BitAnd(instr, NINE_BIT_MASK), 9)
        cond_flag == BitAnd(Shr(instr, 9), THREE_BIT_MASK)
        coincides == BitAnd(cond_flag, s.regs[Cond])
    IN  IF pc_offset.err # NoErr THEN Err(s, pc_offset.err)
        ELSE IF coincides # 0
        THEN SetReg(s, PC, wrapping_add(s.regs[PC], pc_offset.val))
        ELSE s

jump(s, instr) ==
    LET baser_r == RegField(instr, 6)
    IN  IF baser_r.err # NoErr THEN Err(s, baser_r.err)
        ELSE SetReg(s, PC, s.regs[baser_r.val])

\* the statements of jump_register after R7 is set, s1 the machine with R7 set
jump_register_target(s1, instr) ==
    LET long_flag == BitAnd(Shr(instr, 11), 1)
        long_pc_offset == sign_extend(BitAnd(instr, ELEVEN_BIT_MASK), 11)
        r1 == RegField(instr, 6)
    IN  IF long_flag = 1
        THEN IF long_pc_offset.err # NoErr THEN Err(s1, long_pc_offset.err)
             ELSE SetReg(s1, PC, wrapping_add(s1.regs[PC], long_pc_offset.val))
        ELSE IF r1.err # NoErr THEN Err(s1, r1.err)
             ELSE SetReg(s1, PC, s1.regs[r1.val])

\* a jump that saves the PC in R7 after it has changed it
jump_register_link_last(s, instr) ==
    SetReg(jump_register_target(s, instr), R7, jump_register_target(s, instr).regs[PC])

\* a jump that reads the base register before it saves the PC in R7
jump_register_base_first(s, instr) ==
    IF jump_register_target(s, instr).err # NoErr THEN jump_register_target(s, instr)
    ELSE SetReg(jump_register_target(s, instr), R7, s.regs[PC])

jump_register(s, instr) == jump_register_target(SetReg(s, R7, s.regs[PC]), instr)

\* a load that leaves COND as it was
LoadInto_no_flags(value, dr) ==
    IF value.s.err # NoErr THEN value.s
    ELSE SetReg(value.s, dr, value.val)

\* self.regs[dr] = value; self.update_flags(dr), value the result of a read
LoadInto(value, dr) ==
    IF value.s.err # NoErr THEN value.s
    ELSE VM_update_flags(SetReg(value.s, dr, value.val), dr)

\* self.mem.read(final_address)?, final_address the result of the first read
ReadAt(final_address) == read_q(final_address.s, final_address.val, NoErr)

load_indirect(s, instr) ==
    LET dr == RegField(instr, 9)
        pc_offset == sign_extend(BitAnd(instr, NINE_BIT_MASK), 9)
        address_of_final_address == wrapping_add(s.regs[PC], pc_offset.val)
    IN  IF dr.err # NoErr THEN Err(s, dr.err)
        ELSE IF pc_offset.err # NoErr THEN Err(s, pc_offset.err)
        ELSE LoadInto(ReadAt(Memory_read(s, address_of_final_address, NoErr)), dr.val)

load(s, instr) ==
    LET dr == RegField(instr, 9)
        pc_offset == sign_extend(BitAnd(instr, NINE_BIT_MASK), 9)
        address == wrapping_add(s.regs[PC], pc_offset.val)
    IN  IF dr.err # NoErr THEN Err(s, dr.err)
        ELSE IF pc_offset.err # NoErr THEN Err(s, pc_offset.err)
        ELSE LoadInto(Memory_read(s, address, NoErr), dr.val)

load_register(s, instr) ==
    LET dr == RegField(instr, 9)
        r1 == RegField(instr, 6)
        offset6 == sign_extend(BitAnd(instr, SIX_BIT_MASK), 6)
        address == wrapping_add(s.regs[r1.val], offset6.val)
    IN  IF dr.err # NoErr THEN Err(s, dr.err)
        ELSE IF r1.err # NoErr THEN Err(s, r1.err)
        ELSE IF offset6.err # NoErr THEN Err(s, offset6.err)
        ELSE LoadInto(Memory_read(s, address, NoErr), dr.val)

\* a LEA that reads the cell at the address, as LD does
load_effective_address_reading(s, instr) == load(s, instr)

load_effective_address(s, instr) ==
    LET dr == RegField(instr, 9)
        pc_offset == sign_extend(BitAnd(instr, NINE_BIT_MASK), 9)
    IN  IF dr.err # NoErr THEN Err(s, dr.err)
        ELSE IF pc_offset.err # NoErr THEN Err(s, pc_offset.err)
        ELSE VM_update_flags(
                 SetReg(s, dr.val, wrapping_add(s.regs[PC], pc_offset.val)), dr.val)

\* a store relative to the address of the instruction, not to the incremented PC
store_from_instr_addr(s, instr) ==
    LET sr == RegField(instr, 9)
        pc_offset == sign_extend(BitAnd(instr, NINE_BIT_MASK), 9)
        address == wrapping_add(wrapping_add(s.regs[PC], WORD_MAX), pc_offset.val)
    IN  SetMem(s, Memory_write(s.mem, address, s.regs[sr.val]))

store(s, instr) ==
    LET sr == RegField(instr, 9)
        pc_offset == sign_extend(BitAnd(instr, NINE_BIT_MASK), 9)
        address == wrapping_add(s.regs[PC], pc_offset.val)
        new_val == s.regs[sr.val]
    IN  IF sr.err # NoErr THEN Err(s, sr.err)
        ELSE IF pc_offset.err # NoErr THEN Err(s, pc_offset.err)
        ELSE SetMem(s, Memory_write(s.mem, address, new_val))

\* self.mem.write(final_address, self.regs[sr]), final_address the result of the read
WriteAt(final_address, sr) ==
    IF final_address.s.err # NoErr THEN final_address.s
    ELSE SetMem(final_address.s,
                Memory_write(final_address.s.mem, final_address.val,
                             final_address.s.regs[sr]))

store_indirect(s, instr) ==
    LET sr == RegField(instr, 9)
        pc_offset == sign_extend(BitAnd(instr, NINE_BIT_MASK), 9)
        first_address == wrapping_add(s.regs[PC], pc_offset.val)
    IN  IF sr.err # NoErr THEN Err(s, sr.err)
        ELSE IF pc_offset.err # NoErr THEN Err(s, pc_offset.err)
        ELSE WriteAt(Memory_read(s, first_address, NoErr), sr.val)

store_register(s, instr) ==
    LET sr == RegField(instr, 9)
        r1 == RegField(instr, 6)
        offset == sign_extend(BitAnd(instr, SIX_BIT_MASK), 6)
        address == wrapping_add(s.regs[r1.val], offset.val)
        new_val == s.regs[sr.val]
    IN  IF sr.err # NoErr THEN Err(s, sr.err)
        ELSE IF r1.err # NoErr THEN Err(s, r1.err)
        ELSE IF offset.err # NoErr THEN Err(s, offset.err)
        ELSE SetMem(s, Memory_write(s.mem, address, new_val))

(***************************************************************************)
(* vm.rs, trap_code.rs: the trap routines.  relock is what a second lock   *)
(* of stdin does while VM::trap holds the first ("Hang" or "Panic").       *)
(***************************************************************************)
\* a decoder that takes every unknown vector for HALT
TrapCode_try_from_halting(value) ==
    CASE value = 32 -> Ret("GetC")
      [] value = 33 -> Ret("Out")
      [] value = 34 -> Ret("Puts")
      [] value = 35 -> Ret("In")
      [] value = 36 -> Ret("PutsP")
      [] OTHER -> Ret("Halt")

TrapCode_try_from(value) ==
    CASE value = 32 -> Ret("GetC")
      [] value = 33 -> Ret("Out")
      [] value = 34 -> Ret("Puts")
      [] value = 35 -> Ret("In")
      [] value = 36 -> Ret("PutsP")
      [] value = 37 -> Ret("Halt")
      [] OTHER -> [err |-> "Conversion", val |-> "unknown"]

\* u8::try_from(u16)
u8_try_from(c) == IF c <= EIGHT_BIT_MASK THEN Ret(c) ELSE Fail("Conversion")

\* self.regs[R0] = char; self.update_flags(R0), buffer the result of getchar
SetChar(s, char) ==
    IF s.err # NoErr THEN s ELSE VM_update_flags(SetReg(s, R0, char), R0)

\* a character stored without the flags
get_c_store_no_flags(buffer) ==
    IF buffer.s.err # NoErr THEN buffer.s ELSE SetReg(buffer.s, R0, buffer.val)

get_c_store(buffer) == SetChar(buffer.s, buffer.val)

get_c(s) == get_c_store(getchar(s))

out(s) ==
    LET c == u8_try_from(s.regs[R0])
    IN  IF c.err # NoErr THEN Err(s, c.err)
        ELSE stdout_write(s, <<c.val>>)

\* the bytes of "Enter a character: "
Prompt == <<69, 110, 116, 101, 114, 32, 97, 32, 99, 104, 97, 114, 97, 99, 116,
            101, 114, 58, 32>>

\* the statements of trap_in after getchar, buffer its result
trap_in_echo(buffer) ==
    SetChar(flush_q(write_q(buffer.s, <<buffer.val>>)), buffer.val)

trap_in(s) == trap_in_echo(getchar([s EXCEPT !.printed = s.printed \o Prompt]))

\* the while loop of VM::puts, c the result of the read at c_addr
RECURSIVE puts_loop(_, _, _)
puts_loop(c, c_addr, relock) ==
    IF c.s.err # NoErr THEN c.s
    ELSE IF c.val = NULL THEN stdout_flush(c.s)
    ELSE LET char == u8_try_from(c.val)
         IN  IF char.err # NoErr THEN Err(c.s, char.err)
             ELSE puts_loop(read_q(stdout_write(c.s, <<char.val>>),
                                   wrapping_add(c_addr, 1), relock),
                            wrapping_add(c_addr, 1), relock)

puts(s, relock) == puts_loop(Memory_read(s, s.regs[R0], relock), s.regs[R0], relock)

\* a second character written even when it is 0
write_char2_always(s1, char2) ==
    IF s1.err # NoErr THEN s1
    ELSE IF char2.err # NoErr THEN Err(s1, char2.err)
    ELSE stdout_write(s1, <<char2.val>>)

\* the write of the second character of a word, s1 the machine after the first
write_char2(s1, char2) ==
    IF s1.err # NoErr THEN s1
    ELSE IF char2.err # NoErr THEN Err(s1, char2.err)
    ELSE IF char2.val # 0 THEN stdout_write(s1, <<char2.val>>)
    ELSE s1

\* the while loop of VM::puts_p, c the result of the read at c_addr
RECURSIVE puts_p_loop(_, _, _)
puts_p_loop(c, c_addr, relock) ==
    IF c.s.err # NoErr THEN c.s
    ELSE IF c.val = NULL THEN stdout_flush(c.s)
    ELSE LET char1 == u8_try_from(BitAnd(c.val, EIGHT_BIT_MASK))
             char2 == u8_try_from(Shr(c.val, 8))
         IN  IF char1.err # NoErr THEN Err(c.s, char1.err)
             ELSE puts_p_loop(
                      read_q(write_char2(stdout_write(c.s, <<char1.val>>), char2),
                             wrapping_add(c_addr, 1), relock),
                      wrapping_add(c_addr, 1), relock)

puts_p(s, relock) == puts_p_loop(Memory_read(s, s.regs[R0], relock), s.regs[R0], relock)

\* the bytes of "HALT\n"
HaltBytes == <<72, 65, 76, 84, 10>>

\* a halt that clears the flag whether or not the write and the flush succeeded
halt_stop_always(s2) == [s2 EXCEPT !.running = FALSE]

\* self.running = false, s2 the machine after the write and the flush
halt_stop(s2) == IF s2.err # NoErr THEN s2 ELSE [s2 EXCEPT !.running = FALSE]

\* halt without the flush
halt_no_flush(s) == halt_stop(stdout_write(s, HaltBytes))

halt(s) == halt_stop(flush_q(stdout_write(s, HaltBytes)))

\* the match of VM::trap, s1 the machine with R7 set
trap_routine(s1, trap_code, relock) ==
    IF trap_code.err # NoErr THEN Err(s1, trap_code.err)
    ELSE CASE trap_code.val = "GetC" -> get_c(s1)
           [] trap_code.val = "Out" -> out(s1)
           [] trap_code.val = "Puts" -> puts(s1, relock)
           [] trap_code.val = "In" -> trap_in(s1)
           [] trap_code.val = "PutsP" -> puts_p(s1, relock)
           [] trap_code.val = "Halt" -> halt(s1)

\* a trap that does not save the PC
trap_no_link(s, instr, relock) ==
    trap_routine(s, TrapCode_try_from(BitAnd(instr, EIGHT_BIT_MASK)), relock)

trap(s, instr, relock) ==
    trap_routine(SetReg(s, R7, s.regs[PC]),
                 TrapCode_try_from(BitAnd(instr, EIGHT_BIT_MASK)), relock)

(***************************************************************************)
(* hardware.rs: the opcode of an instruction; vm.rs: one iteration of the  *)
(* loop of VM::run.                                                        *)
(***************************************************************************)
\* a decoder that takes the reserved nibble for JMP
OpCode_try_from_reserved(value) ==
    CASE value = 0 -> Ret("Br")
      [] value = 1 -> Ret("Add")
      [] value = 2 -> Ret("Ld")
      [] value = 3 -> Ret("St")
      [] value = 4 -> Ret("Jsr")
      [] value = 5 -> Ret("And")
      [] value = 6 -> Ret("Ldr")
      [] value = 7 -> Ret("Str")
      [] value = 9 -> Ret("Not")
      [] value = 10 -> Ret("Ldi")
      [] value = 11 -> Ret("Sti")
      [] value = 12 -> Ret("Jmp")
      [] value = 13 -> Ret("Jmp")
      [] value = 14 -> Ret("Lea")
      [] value = 15 -> Ret("Trap")
      [] OTHER -> [err |-> "Conversion", val |-> "illegal"]

OpCode_try_from(value) ==
    CASE value = 0 -> Ret("Br")
      [] value = 1 -> Ret("Add")
      [] value = 2 -> Ret("Ld")
      [] value = 3 -> Ret("St")
      [] value = 4 -> Ret("Jsr")
      [] value = 5 -> Ret("And")
      [] value = 6 -> Ret("Ldr")
      [] value = 7 -> Ret("Str")
      [] value = 9 -> Ret("Not")
      [] value = 10 -> Ret("Ldi")
      [] value = 11 -> Ret("Sti")
      [] value = 12 -> Ret("Jmp")
      [] value = 14 -> Ret("Lea")
      [] value = 15 -> Ret("Trap")
      [] OTHER -> [err |-> "Conversion", val |-> "illegal"]

\* the locals of an iteration once the instruction is read
Fetched(instr_addr, instr) ==
    [s |-> instr.s, instr_addr |-> instr_addr, instr |-> instr.val]

\* a fetch that moves the PC by two
Fetch_skipping(s) ==
    Fetched(s.regs[PC],
            Memory_read(SetReg(s, PC, wrapping_add(s.regs[PC], 2)), s.regs[PC], NoErr))

\* the PC moved once the word is read, instr the result of the read
MovedAfter(instr) ==
    IF instr.s.err # NoErr THEN instr
    ELSE Out(SetReg(instr.s, PC, wrapping_add(instr.s.regs[PC], 1)), instr.val)

\* a fetch that moves the PC only when the read has succeeded
Fetch_moving_after(s) ==
    Fetched(s.regs[PC], MovedAfter(Memory_read(s, s.regs[PC], NoErr)))

\* the first three statements of the loop body: { s, instr_addr, instr }
Fetch(s) ==
    Fetched(s.regs[PC],
            Memory_read(SetReg(s, PC, wrapping_add(s.regs[PC], 1)), s.regs[PC], NoErr))

\* the match of the loop body
Execute(s, op_code, instr, relock) ==
    CASE op_code = "Br" -> branch(s, instr)
      [] op_code = "Add" -> add(s, instr)
      [] op_code = "Ld" -> load(s, instr)
      [] op_code = "St" -> store(s, instr)
      [] op_code = "Jsr" -> jump_register(s, instr)
      [] op_code = "And" -> and(s, instr)
      [] op_code = "Ldr" -> load_register(s, instr)
      [] op_code = "Str" -> store_register(s, instr)
      [] op_code = "Not" -> not(s, instr)
      [] op_code = "Ldi" -> load_indirect(s, instr)
      [] op_code = "Sti" -> store_indirect(s, instr)
      [] op_code = "Jmp" -> jump(s, instr)
      [] op_code = "Lea" -> load_effective_address(s, instr)
      [] op_code = "Trap" -> trap(s, instr, relock)

\* the rest of the loop body, f the result of Fetch and op_code of OpCode::try_from
Dispatch(f, op_code, relock) ==
    [instr_addr |-> f.instr_addr,
     instr |-> f.instr,
     op_code |-> IF f.s.err # NoErr THEN "none" ELSE op_code.val,
     trap_code |-> IF f.s.err = NoErr /\ op_code.val = "Trap"
                   THEN TrapCode_try_from(BitAnd(f.instr, EIGHT_BIT_MASK)).val
                   ELSE "none",
     s |-> IF f.s.err # NoErr THEN f.s
           ELSE IF op_code.err # NoErr THEN Err(f.s, op_code.err)
           ELSE Execute(f.s, op_code.val, f.instr, relock)]

\* the instruction word of a fetch, 0 when the read failed
InstrOf(f) == IF f.s.err # NoErr THEN 0 ELSE f.instr

\* one iteration: { s, op_code, trap_code, instr_addr, instr }
Decode(f, relock) == Dispatch(f, OpCode_try_from(Shr(InstrOf(f), 12)), relock)

Iteration(s, relock) == Decode(Fetch(s), relock)

(***************************************************************************)
(* vm.rs, utils.rs: the image loader.  A file is the sequence of its       *)
(* bytes, NoFile when it cannot be read, or LongFile, the name of one      *)
(* image too long to carry around spelled out.                             *)
(***************************************************************************)
NoFile == <<-1>>

\* an image of one word more than the memory has cells, named and not spelled
\* out where a file is expected: origin 0, word 0 is 1, word 1 is 2, the last
\* word (number 65536) is 3, the others are 0
LongFile == <<-2>>

LongImage ==
    SubSeq([i \in 1 .. (2 * MEMORY_MAX + 4) |->
               CASE i = 4 -> 1
                 [] i = 6 -> 2
                 [] i = 2 * MEMORY_MAX + 4 -> 3
                 [] OTHER -> 0],
           1, 2 * MEMORY_MAX + 4)

\* the bytes of a file that can be read, as a vector
BytesOf(file) == IF file = LongFile THEN LongImage ELSE SubSeq(file, 1, Len(file))

\* a loop body that does not advance the address
chunk_body_fixed(w, file_bytes, i) ==
    IF i + 1 \notin DOMAIN file_bytes THEN [w EXCEPT !.err = "NoMoreBytes"]
    ELSE [err |-> Memory_write(w.mem, w.mem_addr,
                               from_be_bytes(file_bytes[i], file_bytes[i + 1])).err,
          mem |-> Memory_write(w.mem, w.mem_addr,
                               from_be_bytes(file_bytes[i], file_bytes[i + 1])).mem,
          mem_addr |-> w.mem_addr]

\* a loop body that passes over a last chunk of one byte
chunk_body_lone(w, file_bytes, i) ==
    IF i + 1 \notin DOMAIN file_bytes THEN w
    ELSE [err |-> Memory_write(w.mem, w.mem_addr,
                               from_be_bytes(file_bytes[i], file_bytes[i + 1])).err,
          mem |-> Memory_write(w.mem, w.mem_addr,
                               from_be_bytes(file_bytes[i], file_bytes[i + 1])).mem,
          mem_addr |-> wrapping_add(w.mem_addr, 1)]

\* the body of the for loop over file_bytes.chunks(2) for the chunk at byte i
\* (after the origin), w the loop's state: { err, mem, mem_addr }
chunk_body(w, file_bytes, i) ==
    IF i + 1 \notin DOMAIN file_bytes THEN [w EXCEPT !.err = "NoMoreBytes"]
    ELSE [err |-> Memory_write(w.mem, w.mem_addr,
                               from_be_bytes(file_bytes[i], file_bytes[i + 1])).err,
          mem |-> Memory_write(w.mem, w.mem_addr,
                               from_be_bytes(file_bytes[i], file_bytes[i + 1])).mem,
          mem_addr |-> wrapping_add(w.mem_addr, 1)]

\* the for loop over the chunks lo .. hi in order, stopped by the first failure;
\* the range is halved so that a long file nests the evaluation only a little
RECURSIVE chunks_loop(_, _, _, _)
chunks_loop(w, file_bytes, lo, hi) ==
    IF w.err # NoErr \/ lo > hi THEN w
    ELSE IF lo = hi THEN chunk_body(w, file_bytes, 2 * lo + 1)
    ELSE chunks_loop(chunks_loop(w, file_bytes, lo, (lo + hi) \div 2),
                     file_bytes, (lo + hi) \div 2 + 1, hi)

\* Vec::remove(0) panics on an empty vector; { err, mem }
read_image_result(w) == [err |-> w.err, mem |-> w.mem]

read_image_file(m, file_bytes) ==
    IF Len(file_bytes) < 2 THEN [err |-> "Panic", mem |-> m]
    ELSE read_image_result(
             chunks_loop([err |-> NoErr, mem |-> m,
                          mem_addr |-> from_be_bytes(file_bytes[1], file_bytes[2])],
                         file_bytes, 1, (Len(file_bytes) - 1) \div 2))

\* fs::read: the bytes of the file as a vector, or the failure to open it
fs_read(file) ==
    IF file = NoFile THEN Fail("OpenFile") ELSE Ret(BytesOf(file))

\* read_image_file(&mut f, mem)?, f the result of fs::read
read_image_bytes(m, f) ==
    IF f.err # NoErr THEN [err |-> f.err, mem |-> m]
    ELSE read_image_file(m, f.val)

read_image(m, file) == read_image_bytes(m, fs_read(file))

\* a loop that gives every image a memory of its own and keeps the last
RECURSIVE load_loop_fresh(_, _, _)
load_loop_fresh(r, files, i) ==
    IF r.err = "Panic" THEN [exit |-> "panic", mem |-> r.mem]
    ELSE IF r.err # NoErr THEN [exit |-> "exit1", mem |-> r.mem]
    ELSE IF i > Len(files) THEN [exit |-> "none", mem |-> r.mem]
    ELSE load_loop_fresh(read_image(Memory_new, files[i]), files, i + 1)

\* the for loop over the paths: r the result of the last read_image, i the index
\* of the next path; { exit, mem }
RECURSIVE load_loop(_, _, _)
load_loop(r, files, i) ==
    IF r.err = "Panic" THEN [exit |-> "panic", mem |-> r.mem]
    ELSE IF r.err # NoErr THEN [exit |-> "exit1", mem |-> r.mem]
    ELSE IF i > Len(files) THEN [exit |-> "none", mem |-> r.mem]
    ELSE load_loop(read_image(r.mem, files[i]), files, i + 1)

\* files are the arguments after the program's name
load_arguments(m, files) ==
    IF Len(files) + 1 < 2 THEN [exit |-> "exit2", mem |-> m]
    ELSE load_loop([err |-> NoErr, mem |-> m], files, 1)

(***************************************************************************)
(* utils.rs: the terminal.  The attributes are the two flags setup clears. *)
(* Termios::from_fd and tcsetattr are taken to succeed.                    *)
(***************************************************************************)
Cooked == [icanon |-> TRUE, echo |-> TRUE]

\* setup: { termios, initial_termios }
setup(t) ==
    [termios |-> [t EXCEPT !.icanon = FALSE, !.echo = FALSE], initial_termios |-> t]

\* shutdown: the attributes after tcsetattr
shutdown(initial_termios) == initial_termios

(***************************************************************************)
(* The inputs: image files, host input, host output failures.              *)
(***************************************************************************)
WordBytes(w) == <<w \div 256, w % 256>>

RECURSIVE WordsBytes(_)
WordsBytes(ws) == IF ws = <<>> THEN <<>> ELSE WordBytes(Head(ws)) \o WordsBytes(Tail(ws))

Image(origin, words) == WordBytes(origin) \o WordsBytes(words)

SeqsUpTo(S, n) == UNION {[1 .. k -> S] : k \in 0 .. n}

\* instruction and data words the generated images are made of
Palette ==
    { 1025,     \* 0x0401 BRz +1
      4129,     \* 0x1021 ADD R0, R0, #1
      8703,     \* 0x21FF LD R0, #-1
      12288,    \* 0x3000 ST R0, #0
      18433,    \* 0x4801 JSR +1
      20512,    \* 0x5020 AND R0, R0, #0
      24576,    \* 0x6000 LDR R0, R0, #0
      28672,    \* 0x7000 STR R0, R0, #0
      36927,    \* 0x903F NOT R0, R0
      40960,    \* 0xA000 LDI R0, #0
      45056,    \* 0xB000 STI R0, #0
      49152,    \* 0xC000 JMP R0
      57344,    \* 0xE000 LEA R0, #0
      61472, 61473, 61474, 61475, 61476, 61477,    \* 0xF020 .. 0xF025 the traps
      61440,    \* 0xF000 TRAP with an unknown vector
      32768,    \* 0x8000 RTI
      65024 }   \* 0xFE00 the address of the keyboard status

GeneratedImages == {Image(PC_START, ws) : ws \in SeqsUpTo(Palette, MaxImageWords)}

\* longer programs: a keyboard poll, a string, a jump to the keyboard status, a
\* store through a pointer, an addition of registers, a branch to itself
ScenarioImages ==
    { Image(PC_START, <<8706, 24640, 61477, 65024>>),
      Image(PC_START, <<4095>>),
      Image(PC_START, <<57346, 61474, 61477, 72, 105, 0>>),
      Image(PC_START, <<57346, 61476, 61477, 26952, 33, 0>>),
      Image(PC_START, <<8193, 49152, 65024>>),
      Image(PC_START, <<8706, 45057, 61477, 65024>>),
      Image(PC_START, <<4195, 61477>>) }

\* files the loader rejects
BadFiles == { <<>>, <<48>>, <<48, 0, 1>>, <<48, 0, 240, 37, 1>>, NoFile }

\* files loaded one after the other
OverlayFiles ==
    { Image(PC_START, <<61477>>), Image(PC_START, <<4129, 61477>>),
      Image(PC_START + 1, <<61473>>), <<48>> }

\* three files: images that overlap, one across the end of the memory, one
\* without a word, one that cannot be read
OverlayTriples ==
    { <<Image(PC_START - 1, <<7, 8, 9>>), Image(PC_START, <<4129, 61477>>),
        Image(PC_START + 1, <<61477>>)>>,
      <<Image(WORD_MAX, <<61477, 5>>), Image(PC_START, <<61477>>), Image(0, <<6>>)>>,
      <<Image(PC_START, <<61477>>), Image(PC_START, <<>>),
        Image(PC_START, <<4129, 61477>>)>>,
      <<Image(PC_START, <<61477>>), NoFile, Image(PC_START, <<4129, 61477>>)>> }

ArgLists ==
    {<<>>} \cup {<<f>> : f \in GeneratedImages \cup ScenarioImages \cup BadFiles}
           \cup {<<f, g>> : f \in OverlayFiles, g \in OverlayFiles}
           \cup OverlayTriples

InBytes == {0, 97}
Inputs == SeqsUpTo(InBytes, MaxInput)
OutOks == {Unlimited} \cup (0 .. MaxOutOk)
Relocks == {"Hang", "Panic"}

(***************************************************************************)
(* The driver (main.rs) around the dispatch loop (VM::run).  The lines main *)
(* prints about its progress are left out.                                 *)
(***************************************************************************)
NoLast == [op_code |-> "none", trap_code |-> "none", instr_addr |-> 0, instr |-> 0]
NoCall == [f |-> "none"]

\* what no function has touched yet
Fresh ==
    /\ running = TRUE
    /\ consumed = <<>>
    /\ output = <<>>
    /\ printed = <<>>
    /\ res = NoErr
    /\ termios = Cooked
    /\ stash = Cooked
    /\ exit_code = "none"
    /\ last = NoLast
    /\ steps = 0

Init ==
    /\ Fresh
    /\ mem = Memory_new
    /\ regs = Registers_new
    /\ phase = "start"
    /\ args \in ArgLists
    /\ build \in Builds
    /\ call = NoCall

\* main.rs: load_arguments(&mut args, &mut mem).unwrap()
LoadArguments ==
    /\ phase = "start"
    /\ LET r == load_arguments(mem, args)
       IN  /\ mem' = r.mem
           /\ phase' = IF r.exit = "none" THEN "loaded" ELSE "exited"
           /\ exit_code' = r.exit
    /\ args' = <<>>
    /\ UNCHANGED <<regs, running, consumed, output, printed, res, termios, stash,
                   last, steps, build, call>>

\* a start that leaves COND as Registers::new made it
Setup_no_cond ==
    /\ phase = "loaded"
    /\ LET t == setup(termios)
       IN  /\ termios' = t.termios
           /\ stash' = t.initial_termios
    /\ regs' = [regs EXCEPT ![PC] = PC_START]
    /\ running' = TRUE
    /\ phase' = "run"
    /\ UNCHANGED <<mem, consumed, output, printed, res, args, exit_code, last, steps,
                   build, call>>

\* main.rs: setup().unwrap(), then COND, PC and the running flag
Setup ==
    /\ phase = "loaded"
    /\ LET t == setup(termios)
       IN  /\ termios' = t.termios
           /\ stash' = t.initial_termios
    /\ regs' = [regs EXCEPT ![Cond] = Zro, ![PC] = PC_START]
    /\ running' = TRUE
    /\ phase' = "run"
    /\ UNCHANGED <<mem, consumed, output, printed, res, args, exit_code, last, steps,
                   build, call>>

\* the machine the next iteration starts from, given the host's behaviour
Now(inp, ok) == Machine(mem, regs, running, inp, ok)

\* a loop that goes on after a failure
Looping_on_error == phase = "run" /\ running /\ steps < MaxSteps

\* the loop goes on: no failure has been returned and the running flag is set
Looping == phase = "run" /\ res = NoErr /\ running /\ steps < MaxSteps

\* the state after the iteration it
Commit(it) ==
    /\ mem' = it.s.mem
    /\ regs' = it.s.regs
    /\ running' = it.s.running
    /\ consumed' = consumed \o it.s.consumed
    /\ output' = output \o it.s.output
    /\ printed' = printed \o it.s.printed
    /\ res' = it.s.err
    /\ last' = [op_code |-> it.op_code, trap_code |-> it.trap_code,
                instr_addr |-> it.instr_addr, instr |-> it.instr]
    /\ steps' = steps + 1
    /\ UNCHANGED <<phase, args, termios, stash, exit_code, build, call>>

\* the operation and the trap routine the word instr decodes to
DecodedOf(op_code, instr) ==
    <<op_code,
      IF op_code = "Trap" THEN TrapCode_try_from(BitAnd(instr, EIGHT_BIT_MASK)).val
      ELSE "none">>

\* what the next iteration decodes; a fetch at the keyboard status reads the host
Decoded ==
    IF regs[PC] = KeyboardStatus THEN <<"none", "none">>
    ELSE DecodedOf(OpCode_try_from(Shr(MemAt(mem, regs[PC]), 12)).val,
                   MemAt(mem, regs[PC]))

\* an iteration whose instruction touches neither the host nor a second memory cell
Step(op_code) ==
    /\ Looping
    /\ Decoded[1] = op_code
    /\ \E it \in {Iteration(Now(<<>>, Unlimited), "Hang")} :
          it.op_code = op_code /\ Commit(it)

\* an iteration whose instruction reads memory, and so perhaps the keyboard
StepRead(op_code) ==
    /\ Looping
    /\ Decoded[1] = op_code
    /\ \E inp \in Inputs :
          \E it \in {Iteration(Now(inp, Unlimited), "Hang")} :
             it.op_code = op_code /\ Commit(it)

\* an iteration that runs a trap routine
StepTrap(trap_code) ==
    /\ Looping
    /\ Decoded = <<"Trap", trap_code>>
    /\ \E inp \in Inputs, ok \in OutOks, relock \in Relocks :
          \E it \in {Iteration(Now(inp, ok), relock)} :
             it.op_code = "Trap" /\ it.trap_code = trap_code /\ Commit(it)

\* an iteration whose fetch fails, or fetches a word that is no instruction
StepFail(op_code) ==
    /\ Looping
    /\ \E inp \in Inputs :
          \E it \in {Iteration(Now(inp, Unlimited), "Hang")} :
             it.op_code = op_code /\ Commit(it)

Br == Looping /\ Step("Br")
Add == Looping /\ Step("Add")
And == Looping /\ Step("And")
Not == Looping /\ Step("Not")
Jmp == Looping /\ Step("Jmp")
Jsr == Looping /\ Step("Jsr")
Lea == Looping /\ Step("Lea")
St == Looping /\ Step("St")
Str == Looping /\ Step("Str")
Ld == Looping /\ StepRead("Ld")
Ldi == Looping /\ StepRead("Ldi")
Ldr == Looping /\ StepRead("Ldr")
Sti == Looping /\ StepRead("Sti")
TrapGetC == Looping /\ StepTrap("GetC")
TrapOut == Looping /\ StepTrap("Out")
TrapPuts == Looping /\ StepTrap("Puts")
TrapIn == Looping /\ StepTrap("In")
TrapPutsP == Looping /\ StepTrap("PutsP")
TrapHalt == Looping /\ StepTrap("Halt")
TrapUnknown == Looping /\ StepTrap("unknown")

\* the read of the instruction fails
FetchFails == Looping /\ StepFail("none")

\* OpCode::try_from fails
DecodeFails == Looping /\ StepFail("illegal")

\* vm.rs: the loop condition is false, run returns Ok(())
RunReturns ==
    /\ phase = "run" /\ res = NoErr /\ ~running
    /\ res' = "Ok"
    /\ UNCHANGED <<mem, regs, running, consumed, output, printed, phase, args, termios,
                   stash, exit_code, last, steps, build, call>>

\* main.rs: shutdown().unwrap() and Ok(()).  main keeps no hold of the attributes
\* setup returned; shutdown is given them here, as utils.rs declares it
Shutdown ==
    /\ phase = "run" /\ res = "Ok"
    /\ termios' = shutdown(stash)
    /\ phase' = "exited"
    /\ exit_code' = "exit0"
    /\ UNCHANGED <<mem, regs, running, consumed, output, printed, res, args, stash,
                   last, steps, build, call>>

\* main.rs: unwrap() of an Err panics, and a panic inside the loop ends the process
Unwrap ==
    /\ phase = "run" /\ res \notin {NoErr, "Ok", "Hang"}
    /\ phase' = "exited"
    /\ exit_code' = "panic"
    /\ UNCHANGED <<mem, regs, running, consumed, output, printed, res, args, termios,
                   stash, last, steps, build, call>>

Next ==
    \/ LoadArguments \/ Setup
    \/ Br \/ Add \/ And \/ Not \/ Jmp \/ Jsr \/ Lea \/ St \/ Str
    \/ Ld \/ Ldi \/ Ldr \/ Sti
    \/ TrapGetC \/ TrapOut \/ TrapPuts \/ TrapIn \/ TrapPutsP \/ TrapHalt \/ TrapUnknown
    \/ FetchFails \/ DecodeFails
    \/ RunReturns \/ Shutdown \/ Unwrap

Spec == Init /\ [][Next]_vars

(***************************************************************************)
(* The loader alone: read_image on one file, from an empty memory.         *)
(***************************************************************************)
LoadBytes == {0, 1, 255}

LoadFiles == SeqsUpTo(LoadBytes, MaxLoadBytes) \cup {LongFile, NoFile}

InitLoad ==
    /\ Fresh
    /\ mem = Memory_new
    /\ regs = Registers_new
    /\ phase = "load"
    /\ args \in {<<f>> : f \in LoadFiles}
    /\ build \in Builds
    /\ call = NoCall

\* the result of read_image on the file, kept with the file and the memory before
ReadImageDone(r, file) ==
    /\ mem' = r.mem
    /\ call' = [f |-> "read_image", file |-> file, err |-> r.err, before |-> mem]

ReadImage ==
    /\ phase = "load"
    /\ args # <<>>
    /\ ReadImageDone(read_image(mem, Head(args)), Head(args))
    /\ args' = Tail(args)
    /\ UNCHANGED <<regs, running, consumed, output, printed, res, phase, termios,
                   stash, exit_code, last, steps, build>>

SpecLoad == InitLoad /\ [][ReadImage]_vars

(***************************************************************************)
(* sign_extend alone, on every x of every width, in both builds.           *)
(***************************************************************************)
\* values of x for the width 0, which has no x below 2^0 but 0
EdgeWords == {0, 1, 32767, 32768, 65535}

\* the values of x for a width: those below 2^bit_count, and the edge words for 0
SignExtendArgs(bit_count) ==
    (0 .. (2 ^ bit_count - 1)) \cup (IF bit_count = 0 THEN EdgeWords ELSE {})

InitSignExtend ==
    /\ Fresh
    /\ mem = Memory_new
    /\ regs = Registers_new
    /\ phase = "call"
    /\ args = <<>>
    /\ build \in Builds
    /\ \E bit_count \in 0 .. WORD_BITS :
          \E x \in SignExtendArgs(bit_count) :
             call = [f |-> "sign_extend", x |-> x, bit_count |-> bit_count,
                     done |-> FALSE, ret |-> Ret(0)]

SignExtend ==
    /\ phase = "call"
    /\ call.f = "sign_extend" /\ ~call.done
    /\ call' = [call EXCEPT !.done = TRUE, !.ret = sign_extend(call.x, call.bit_count)]
    /\ UNCHANGED <<mem, regs, running, consumed, output, printed, res, phase, args,
                   termios, stash, exit_code, last, steps, build>>

SpecSignExtend == InitSignExtend /\ [][SignExtend]_vars

(***************************************************************************)
(* update_flags alone, on every value of a general register.               *)
(***************************************************************************)
FlagRegs == R0 .. R7

InitFlags ==
    /\ Fresh
    /\ mem = Memory_new
    /\ phase = "call"
    /\ args = <<>>
    /\ build = "release"
    /\ call \in {[f |-> "update_flags", r |-> r, val |-> v, done |-> FALSE] :
                   r \in FlagRegs, v \in Word}
    /\ regs = [Registers_new EXCEPT ![call.r] = call.val]

UpdateFlags ==
    /\ phase = "call"
    /\ call.f = "update_flags" /\ ~call.done
    /\ regs' = update_flags(regs, call.r)
    /\ call' = [call EXCEPT !.done = TRUE]
    /\ UNCHANGED <<mem, running, consumed, output, printed, res, phase, args,
                   termios, stash, exit_code, last, steps, build>>

SpecFlags == InitFlags /\ [][UpdateFlags]_vars

(***************************************************************************)
(* The memory alone: writes and reads by a caller that holds no lock of    *)
(* the host input.                                                         *)
(***************************************************************************)
MemAddrs == {0, PC_START, KeyboardStatus - 1, KeyboardStatus, KeyboardStatus + 1,
             KeyboardData, WORD_MAX}
MemVals == {0, 1, 32768, 65535}

InitMem ==
    /\ Fresh
    /\ mem = Memory_new
    /\ regs = Registers_new
    /\ phase = "mem"
    /\ args = <<>>
    /\ build = "release"
    /\ call = NoCall

\* the result of Memory::write, kept with its arguments and the memory before
WriteDone(w, addr, val) ==
    /\ mem' = w.mem
    /\ call' = [f |-> "write", addr |-> addr, val |-> val, err |-> w.err,
                before |-> mem, host |-> <<>>]

MemWrite ==
    /\ phase = "mem"
    /\ steps < MaxMemOps
    /\ \E addr \in MemAddrs, val \in MemVals :
          WriteDone(Memory_write(mem, addr, val), addr, val)
    /\ steps' = steps + 1
    /\ UNCHANGED <<regs, running, consumed, output, printed, res, phase, args,
                   termios, stash, exit_code, last, build>>

\* the result of Memory::read, kept with its argument, the memory before and the
\* host input there was
ReadDone(v, addr, inp) ==
    /\ mem' = v.s.mem
    /\ consumed' = consumed \o v.s.consumed
    /\ call' = [f |-> "read", addr |-> addr, val |-> v.val, err |-> v.s.err,
                before |-> mem, host |-> inp]

MemRead ==
    /\ phase = "mem"
    /\ steps < MaxMemOps
    /\ \E addr \in MemAddrs, inp \in Inputs :
          ReadDone(Memory_read(Machine(mem, regs, running, inp, Unlimited), addr, NoErr),
                   addr, inp)
    /\ steps' = steps + 1
    /\ UNCHANGED <<regs, running, output, printed, res, phase, args,
                   termios, stash, exit_code, last, build>>

\* mem_read, its result kept with its argument, the memory before, the host
\* input there was and the bytes it took
MemReadPolling ==
    /\ phase = "mem"
    /\ steps < MaxMemOps
    /\ \E addr \in MemAddrs, inp \in Inputs :
          \E v \in {mem_read(addr, Machine(mem, regs, running, inp, Unlimited))} :
             /\ mem' = v.s.mem
             /\ consumed' = consumed \o v.s.consumed
             /\ call' = [f |-> "mem_read", addr |-> addr, val |-> v.val,
                         err |-> v.s.err, before |-> mem, host |-> inp,
                         taken |-> v.s.consumed]
    /\ steps' = steps + 1
    /\ UNCHANGED <<regs, running, output, printed, res, phase, args,
                   termios, stash, exit_code, last, build>>

SpecMem == InitMem /\ [][MemWrite \/ MemRead \/ MemReadPolling]_vars

(***************************************************************************)
(* One iteration of the loop of VM::run alone: the instruction at the PC,  *)
(* from a chosen register file and memory.  The instructions sign-extend   *)
(* 5, 6, 9 and 11 bits, widths at which the two builds do the same.        *)
(***************************************************************************)
\* R0 .. R7 and COND: small and large values, sums that overflow, addresses
InstrRegs ==
    { <<0, 1, 32767, 32768, 65535, 255, 12290, 65024, Zro>>,
      <<65535, 32769, 2, 65280, 4660, 65026, 32767, 12288, Neg>>,
      <<12544, 65025, 43690, 21845, 3855, 32768, 1, 0, Pos>> }

\* the address of the instruction: the start, the last cell, the cell before the
\* keyboard status
InstrPCs == {PC_START, WORD_MAX, KeyboardStatus - 1}

RegFile(g, pc) ==
    [i \in Register |-> IF i = PC THEN pc ELSE IF i = Cond THEN g[9] ELSE g[i + 1]]

\* the cells around the instruction: data, pointers to data, to the keyboard
\* registers and to themselves
InstrData ==
    [a \in {0, 1, 2, 255, 12033, 12288, 12289, 12290, 12291, 12544, 32768, 65024,
            65025, 65026, 65279, 65280} |->
        CASE a = 0 -> 65026
          [] a = 1 -> 1
          [] a = 2 -> 65535
          [] a = 255 -> 32768
          [] a = 12033 -> 32767
          [] a = 12288 -> 66
          [] a = 12289 -> 12544
          [] a = 12290 -> 65024
          [] a = 12291 -> 12289
          [] a = 12544 -> 48879
          [] a = 32768 -> 4369
          [] a = 65024 -> 5
          [] a = 65025 -> 12544
          [] a = 65026 -> 65024
          [] a = 65279 -> 9
          [] a = 65280 -> 255]

\* every word of BR, ADD, JSR, AND, NOT and LEA; of the loads and the stores,
\* those with every register and a PCoffset9 or offset6 at the edges of its range;
\* of JMP and of the two nibbles that are no operation, 0b1000 and 0b1101, those
\* with every register in bits 8..6 and the other bits all 0 or all 1
InstrWords ==
    {op * 4096 + low : op \in {0, 1, 4, 5, 9, 14}, low \in 0 .. 4095}
    \cup {op * 4096 + r * 512 + off :
             op \in {2, 3, 10, 11}, r \in 0 .. 7, off \in {0, 1, 2, 255, 256, 511}}
    \cup {op * 4096 + r * 512 + b * 64 + off :
             op \in {6, 7}, r \in 0 .. 7, b \in 0 .. 7, off \in {0, 1, 31, 32, 63}}
    \cup {op * 4096 + r * 512 + b * 64 + off :
             op \in {8, 12, 13}, r \in {0, 7}, b \in 0 .. 7, off \in {0, 63}}

\* the register files a TRAP starts from: those above, one whose R0 is the
\* address of a string of bytes, one whose R0 is the keyboard status and one
\* whose R0 is the address before it
TrapRegs ==
    InstrRegs \cup { <<65279, 1, 2, 3, 4, 5, 6, 7, Pos>>,
                     <<65024, 7, 6, 5, 4, 3, 2, 1, Neg>>,
                     <<65023, 0, 0, 0, 0, 0, 0, 0, Zro>> }

InitInstr ==
    /\ Fresh
    /\ phase = "iteration"
    /\ args = <<>>
    /\ build = "release"
    /\ \E pc \in InstrPCs \cup {KeyboardStatus} :
          \/ \E g \in InstrRegs, instr \in InstrWords :
                /\ pc = KeyboardStatus => instr \in {0, 4097, 32768, 49600}
                /\ regs = RegFile(g, pc)
                /\ mem = Put(InstrData, pc, instr)
          \/ \E g \in TrapRegs, hi \in {0, 15}, vect \in 0 .. 255 :
              \E instr \in {15 * 4096 + hi * 256 + vect} :
                /\ pc # KeyboardStatus
                /\ regs = RegFile(g, pc)
                /\ mem = Put(InstrData, pc, instr)
    /\ call = [f |-> "iteration", done |-> FALSE, regs |-> regs, mem |-> mem]

\* the machine after the iteration, kept with the registers and the memory before
IterationDone(it) ==
    /\ mem' = it.s.mem
    /\ regs' = it.s.regs
    /\ running' = it.s.running
    /\ consumed' = consumed \o it.s.consumed
    /\ output' = output \o it.s.output
    /\ printed' = printed \o it.s.printed
    /\ res' = it.s.err
    /\ last' = [op_code |-> it.op_code, trap_code |-> it.trap_code,
                instr_addr |-> it.instr_addr, instr |-> it.instr]
    /\ steps' = steps + 1
    /\ call' = [call EXCEPT !.done = TRUE]

\* an iteration whose word is no TRAP: the host matters to it through the
\* keyboard alone
RunIteration ==
    /\ phase = "iteration"
    /\ ~call.done
    /\ Decoded[1] # "Trap"
    /\ \E inp \in Inputs :
          IterationDone(Iteration(Machine(mem, regs, running, inp, Unlimited), "Hang"))
    /\ UNCHANGED <<phase, args, termios, stash, exit_code, build>>

\* an iteration whose word is a TRAP, with what the host may do: give a byte or
\* none, refuse an output call, hang or panic on a second lock of its input
RunTrap ==
    /\ phase = "iteration"
    /\ ~call.done
    /\ Decoded[1] = "Trap"
    /\ \E inp \in Inputs \cup {<<EIGHT_BIT_MASK>>, <<97, 0>>}, ok \in OutOks,
          relock \in Relocks :
          IterationDone(Iteration(Machine(mem, regs, running, inp, ok), relock))
    /\ UNCHANGED <<phase, args, termios, stash, exit_code, build>>

SpecInstr == InitInstr /\ [][RunIteration \/ RunTrap]_vars

(***************************************************************************)
(* The claims.                                                             *)
(***************************************************************************)
\* the instructions that do not write the PC, with their opcode numbers
SequentialOps ==
    [Add |-> 1, And |-> 5, Not |-> 9, Ld |-> 2, Ldi |-> 10, Ldr |-> 6, Lea |-> 14,
     St |-> 3, Sti |-> 11, Str |-> 7]

\* C1: every iteration of the dispatch loop that completes without error and
\* executes ADD, AND, NOT, LD, LDI, LDR, LEA, ST, STI or STR leaves the PC at the
\* PC before the iteration plus 1 modulo 2^16, and the word it executed is the
\* word the memory held at the PC before the iteration.
C1_SequentialPC ==
    [][(phase = "run" /\ steps' = steps + 1 /\ res' = NoErr
          /\ last'.op_code \in DOMAIN SequentialOps)
       => /\ regs'[8] = (regs[8] + 1) % 65536
          /\ last'.instr = MemAt(mem, regs[8])
          /\ last'.instr \div 4096 = SequentialOps[last'.op_code]]_vars

\* an STI at 0x3001 has run to its end as the second iteration
C1_Witness ==
    /\ phase = "run" /\ res = NoErr /\ steps = 2
    /\ last.op_code = "Sti" /\ last.instr = 45056 /\ last.instr_addr = 12289
    /\ regs[8] = 12290

\* C2: whenever the dispatch loop is about to fetch, COND holds exactly one of
\* P = 1, Z = 2, N = 4.
C2_CondOneHot ==
    (phase = "run" /\ res = NoErr /\ running) => regs[9] \in {1, 2, 4}

\* the loop is about to fetch its third instruction with COND = N
C2_Witness ==
    phase = "run" /\ res = NoErr /\ running /\ steps = 2 /\ regs[9] = 4

\* C3: after update_flags(r), COND is Z = 2 exactly when r holds 0, N = 4 exactly
\* when bit 15 of r is 1, and P = 1 otherwise; r itself is not changed.
C3_Flags ==
    (call.f = "update_flags" /\ call.done)
    => /\ regs[9] = 2 <=> call.val = 0
       /\ regs[9] = 4 <=> (call.val \div 32768) % 2 = 1
       /\ (call.val # 0 /\ (call.val \div 32768) % 2 = 0) => regs[9] = 1
       /\ regs[call.r] = call.val

\* update_flags has run on R7 = 0x8000 and set N
C3_Witness ==
    call.f = "update_flags" /\ call.done /\ call.r = 7 /\ call.val = 32768 /\ regs[9] = 4

\* the value of the low width bits of x read as a two's-complement integer
Signed(x, width) == IF x >= 2 ^ (width - 1) THEN x - 2 ^ width ELSE x

\* C4 as the specification states it: for every width in 1 .. 16 and every x
\* below 2^width, sign_extend(x, width) succeeds and its result, read as a 16-bit
\* two's-complement integer, is x read as a width-bit two's-complement integer.
C4_AsStated ==
    (call.f = "sign_extend" /\ call.done /\ call.bit_count \in 1 .. 16)
    => /\ call.ret.err = NoErr
       /\ Signed(call.ret.val, 16) = Signed(call.x, call.bit_count)

\* the bytes of "HALT\n" and the flush, as the host output receives them
HaltOutput == <<72, 65, 76, 84, 10, 256>>

\* C5 as the specification states it: an iteration that executes TRAP 0x25 adds
\* exactly "HALT\n" and a flush to the host output and clears the running flag,
\* and no iteration follows it.
C5_AsStated ==
    /\ [][(phase = "run" /\ steps' = steps + 1 /\ last'.trap_code = "Halt")
          => (output' = output \o HaltOutput /\ ~running')]_vars
    /\ [][(phase = "run" /\ last.trap_code = "Halt") => steps' = steps]_vars

\* C5, amended: an iteration that executes TRAP 0x25 either adds exactly "HALT\n"
\* and a flush to the host output and clears the running flag, or, when the host
\* refuses the write or the flush, fails with STDOUTWrite or STDOUTFlush and
\* leaves the running flag set; in both cases no iteration follows it.
C5_Halt ==
    /\ [][(phase = "run" /\ steps' = steps + 1 /\ last'.trap_code = "Halt")
          => \/ (res' = NoErr /\ output' = output \o HaltOutput /\ ~running')
             \/ (res' \in {"STDOUTWrite", "STDOUTFlush"} /\ running')]_vars
    /\ [][(phase = "run" /\ last.trap_code = "Halt") => steps' = steps]_vars

\* HALT has run as the second iteration: the output is "HALT\n" and a flush, the
\* running flag is clear and run has returned Ok
C5_Witness ==
    /\ phase = "run" /\ last.trap_code = "Halt" /\ steps = 2
    /\ ~running /\ res = "Ok" /\ output = HaltOutput

\* C6: once a step of an iteration has failed, the dispatch loop has returned
\* that failure and runs no further iteration: nothing of the machine changes
\* any more; a failed read of the instruction returns STDINRead and a word that
\* is no instruction returns Conversion.
C6_FailFast ==
    [][phase = "run"
       => /\ res # NoErr
             => (steps' = steps /\ last' = last /\ mem' = mem /\ regs' = regs
                   /\ running' = running /\ consumed' = consumed /\ output' = output)
          /\ (steps' = steps + 1 /\ last'.op_code = "none") => res' = "STDINRead"
          /\ (steps' = steps + 1 /\ last'.op_code = "illegal") => res' = "Conversion"
          /\ (steps' = steps + 1 /\ last'.trap_code = "unknown") => res' = "Conversion"]_vars

\* a trap with an unknown vector has failed as the second iteration and the
\* process has ended on it
C6_Witness ==
    /\ phase = "exited" /\ res = "Conversion" /\ steps = 2
    /\ last.op_code = "Trap" /\ last.trap_code = "unknown"

\* C7 as the specification states it: whenever the process has exited, the
\* console has the attributes it had before setup.
C7_AsStated == phase = "exited" => termios = Cooked

\* the cells of m1 and m2 agree everywhere but at the addresses in A
SameExcept(m1, m2, A) ==
    \A b \in (DOMAIN m1 \cup DOMAIN m2) \ A : MemAt(m1, b) = MemAt(m2, b)

\* C8: a write of w at an address a other than 0xFE00 and 0xFE02, followed by a
\* read of a, both succeed, the read returns w and consumes no host input, and
\* every cell but a is as it was before the write.
C8_RoundTrip ==
    [][(phase = "mem" /\ steps' = steps + 1 /\ call.f = "write" /\ call'.f = "read"
          /\ call'.addr = call.addr /\ call.addr \notin {65024, 65026})
       => /\ call.err = NoErr /\ call'.err = NoErr
          /\ call'.val = call.val
          /\ consumed' = consumed
          /\ SameExcept(call.before, mem', {call.addr})
          /\ MemAt(mem', call.addr) = call.val]_vars

\* 0xFFFF was written at 0xFE01 and read back as the third operation, with
\* another cell written before
C8_Witness ==
    /\ phase = "mem" /\ steps = 3 /\ call.f = "read" /\ call.addr = 65025
    /\ call.val = 65535 /\ DOMAIN call.before = {0, 65025} /\ consumed = <<>>

\* C9: a read of 0xFE00 with a byte b of host input to come succeeds, consumes
\* exactly b, leaves 0x8000 at 0xFE00 and b at 0xFE02, changes no other cell and
\* returns 0x8000; with no host input to come it fails with STDINRead.
C9_KeyboardRead ==
    [][(phase = "mem" /\ steps' = steps + 1 /\ call'.f = "read" /\ call'.addr = 65024)
       => /\ call'.host # <<>>
             => /\ call'.err = NoErr
                /\ consumed' = Append(consumed, Head(call'.host))
                /\ MemAt(mem', 65024) = 32768
                /\ MemAt(mem', 65026) = Head(call'.host)
                /\ SameExcept(mem, mem', {65024, 65026})
                /\ call'.val = 32768
          /\ call'.host = <<>> => call'.err = "STDINRead"]_vars

\* 0xFE00 held 1 and 0xFE02 held 0xFFFF when a read of 0xFE00 took the byte 97
C9_Witness ==
    /\ phase = "mem" /\ call.f = "read" /\ call.addr = 65024 /\ call.err = NoErr
    /\ MemAt(call.before, 65024) = 1 /\ MemAt(call.before, 65026) = 65535
    /\ call.val = 32768 /\ MemAt(mem, 65026) = 97 /\ consumed = <<97>>

\* the data words of an image, its origin and the i-th of its words (from 0)
WordCount(bytes) == (Len(bytes) - 2) \div 2
OriginOf(bytes) == bytes[1] * 256 + bytes[2]
WordAt(bytes, i) == bytes[2 * i + 3] * 256 + bytes[2 * i + 4]

\* the words of the image from the one numbered from on are where they belong
LaidOut(bytes, from) ==
    \A i \in from .. (WordCount(bytes) - 1) :
        MemAt(mem, (OriginOf(bytes) + i) % 65536) = WordAt(bytes, i)

\* the last 2^16 words of the image, all of them when there are no more
LaidOutLast(bytes) ==
    LaidOut(bytes, IF WordCount(bytes) > 65536 THEN WordCount(bytes) - 65536 ELSE 0)

\* C10 as the specification states it: after a load that succeeded, every data
\* word wi of the image is at (O + i) mod 2^16, whatever the number of words.
C10_AsStated ==
    (call.f = "read_image" /\ call.err = NoErr)
    => LaidOut(BytesOf(call.file), 0)

\* C10, amended: after a load that succeeded, every one of the last 2^16 data
\* words wi of the image is at (O + i) mod 2^16: all the words of an image of at
\* most 2^16 words, and of a longer image those no later word has overwritten.
C10_LaidOut ==
    (call.f = "read_image" /\ call.err = NoErr)
    => LaidOutLast(BytesOf(call.file))

\* the long image is loaded: cell 0 holds its last word 3 and not its word 0
C10_Witness ==
    /\ call.f = "read_image" /\ call.err = NoErr
    /\ call.file = LongFile
    /\ MemAt(mem, 0) = 3 /\ MemAt(mem, 1) = 2

\* a file the host can read, spelled out byte by byte
Spelled(file) == file # NoFile /\ file # LongFile

\* C11 as the specification states it: a load of an image of fewer than two
\* bytes fails with NoMoreBytes and writes nothing to memory.
C11_AsStated ==
    (call.f = "read_image" /\ Spelled(call.file) /\ Len(call.file) < 2)
    => (call.err = "NoMoreBytes" /\ mem = call.before)

\* C12: a load of an image whose data part, the bytes after the two of the
\* origin, has an odd number of bytes fails with NoMoreBytes, and it fails at the
\* trailing byte: the words before it are in memory, laid out from the origin.
C12_OddData ==
    (call.f = "read_image" /\ Spelled(call.file) /\ Len(call.file) >= 3
       /\ (Len(call.file) - 2) % 2 = 1)
    => /\ call.err = "NoMoreBytes"
       /\ LaidOut(call.file, 0)
       /\ SameExcept(call.before, mem,
                     {(OriginOf(call.file) + i) % 65536 :
                        i \in 0 .. (WordCount(call.file) - 1)})

\* an image of origin 1, the word 0x00FF and one more byte was loaded: the word
\* is in memory and the load failed
C12_Witness ==
    /\ call.f = "read_image" /\ call.file = <<0, 1, 0, 255, 1>>
    /\ call.err = "NoMoreBytes"
    /\ MemAt(mem, 1) = 255 /\ MemAt(mem, 2) = 0

\* the image covers the address a, and the word it lays there
Covers(bytes, a) == (a + 65536 - OriginOf(bytes)) % 65536 < WordCount(bytes)
WordFor(bytes, a) == WordAt(bytes, (a + 65536 - OriginOf(bytes)) % 65536)

\* the images of the list that cover a, by their place in the list
Covering(files, a) == {i \in 1 .. Len(files) : Covers(files[i], a)}

\* the word of the last image that covers a, 0 when none does
Overlaid(files, covering, a) ==
    IF covering = {} THEN 0
    ELSE WordFor(files[CHOOSE i \in covering : \A j \in covering : j <= i], a)

\* the addresses the images of the list cover
Covered(files) ==
    UNION {{(OriginOf(files[i]) + k) % 65536 : k \in 0 .. (WordCount(files[i]) - 1)} :
             i \in 1 .. Len(files)}

\* C13: when the images named on the command line are all loaded, every cell an
\* image covers holds the word of the last image, in argument order, that covers
\* it, and every cell no image covers holds 0.
C13_Overlay ==
    [][(phase = "start" /\ phase' = "loaded")
       => \A a \in DOMAIN mem' \cup Covered(args) \cup {0, 12287, 12288, 12290, 65535} :
             MemAt(mem', a) = Overlaid(args, Covering(args, a), a)]_vars

\* three images are loaded: the first covers 0x2FFF .. 0x3001, the second has
\* overwritten 0x3000 and 0x3001, the third 0x3001 again
C13_Witness ==
    /\ phase = "loaded"
    /\ MemAt(mem, 12287) = 7 /\ MemAt(mem, 12288) = 4129 /\ MemAt(mem, 12289) = 61477
    /\ DOMAIN mem = {12287, 12288, 12289}

\* the bits lo .. lo + n - 1 of a word, and a field of n bits sign-extended to 16
Bits(w, lo, n) == (w \div 2 ^ lo) % 2 ^ n
SExt(v, n) == IF v >= 2 ^ (n - 1) THEN v + 65536 - 2 ^ n ELSE v

\* the address the iteration fetched from and the word that was there
IterA == call.regs[8]
IWord == MemAt(call.mem, call.regs[8])

\* the iteration has run on an address other than the keyboard status, where
\* the fetch takes the word stored
FetchedStored == call.f = "iteration" /\ call.done /\ IterA # 65024

\* the iteration has run and its instruction has the opcode op
Ran(op) == FetchedStored /\ IWord \div 4096 = op

\* the flag of a value: Z = 2 for 0, N = 4 with bit 15 set, P = 1 otherwise
FlagOf(v) == IF v = 0 THEN 2 ELSE IF v >= 32768 THEN 4 ELSE 1

\* the bitwise AND of two words, bit by bit
AndBit(a, b, k) == 2 ^ k * (((a \div 2 ^ k) % 2) * ((b \div 2 ^ k) % 2))
AndWord(a, b) ==
    AndBit(a, b, 0) + AndBit(a, b, 1) + AndBit(a, b, 2) + AndBit(a, b, 3)
    + AndBit(a, b, 4) + AndBit(a, b, 5) + AndBit(a, b, 6) + AndBit(a, b, 7)
    + AndBit(a, b, 8) + AndBit(a, b, 9) + AndBit(a, b, 10) + AndBit(a, b, 11)
    + AndBit(a, b, 12) + AndBit(a, b, 13) + AndBit(a, b, 14) + AndBit(a, b, 15)

\* the second operand of ADD and AND: the immediate when bit 5 is 1, else SR2
Operand(w, rs) == IF Bits(w, 5, 1) = 1 THEN SExt(Bits(w, 0, 5), 5) ELSE rs[Bits(w, 0, 3)]

\* C14: after a JSR or JSRR executed by the dispatch loop from address A, R7 is
\* A + 1 modulo 2^16, whatever the long flag and the base register; with the
\* long flag set the PC is A + 1 + sign_extend(bits 10..0, 11) modulo 2^16.
C14_Link ==
    Ran(4)
    => /\ res = NoErr
       /\ regs[7] = (IterA + 1) % 65536
       /\ Bits(IWord, 11, 1) = 1
             => regs[8] = (IterA + 1 + SExt(Bits(IWord, 0, 11), 11)) % 65536

\* a JSRR through R7 has run from 0xFFFF: R7 holds the return address 0
C14_Witness ==
    /\ Ran(4) /\ IWord = 16832 /\ IterA = 65535 /\ call.regs[7] = 65024
    /\ regs[7] = 0

\* the flags of a BR, bits 11..9, and COND have a bit in common
Coincide(nzp, cond) == \E k \in 0 .. 2 : Bits(nzp, k, 1) = 1 /\ Bits(cond, k, 1) = 1

C16_Add ==
    Ran(1)
    => /\ res = NoErr
       /\ regs[Bits(IWord, 9, 3)]
             = (call.regs[Bits(IWord, 6, 3)] + Operand(IWord, call.regs)) % 65536
       /\ regs[9] = FlagOf(regs[Bits(IWord, 9, 3)])

\* ADD R3, R3, R3 has run with R3 = 0x8000: the sum overflows to 0 and COND is Z
C16_Witness ==
    /\ Ran(1) /\ IWord = 5827 /\ call.regs[3] = 32768
    /\ regs[3] = 0 /\ regs[9] = 2

\* C17: AND sets DR to the bitwise AND of SR1 and the operand, the operand being
\* sign_extend(bits 4..0, 5) when bit 5 is 1 and SR2 otherwise, so that the
\* immediate 0b11111 leaves the value of SR1; NOT sets DR to the bitwise
\* complement of the register in bits 8..6; both then set COND from DR.
C17_AndNot ==
    /\ Ran(5)
       => /\ res = NoErr
          /\ regs[Bits(IWord, 9, 3)]
                = AndWord(call.regs[Bits(IWord, 6, 3)], Operand(IWord, call.regs))
          /\ Bits(IWord, 0, 6) = 63
                => regs[Bits(IWord, 9, 3)] = call.regs[Bits(IWord, 6, 3)]
          /\ regs[9] = FlagOf(regs[Bits(IWord, 9, 3)])
    /\ Ran(9)
       => /\ res = NoErr
          /\ regs[Bits(IWord, 9, 3)] = 65535 - call.regs[Bits(IWord, 6, 3)]
          /\ regs[9] = FlagOf(regs[Bits(IWord, 9, 3)])

\* AND R2, R4, #-1 has run with R4 = 0x1234: R2 holds 0x1234 and COND is P
C17_Witness ==
    /\ Ran(5) /\ IWord = 21823 /\ call.regs[4] = 4660 /\ call.regs[2] = 2
    /\ regs[2] = 4660 /\ regs[9] = 1

\* the addresses an instruction names: the incremented PC plus PCoffset9, and
\* the base register plus offset6
PCRel9 == (IterA + 1 + SExt(Bits(IWord, 0, 9), 9)) % 65536
BaseRel6 == (call.regs[Bits(IWord, 6, 3)] + SExt(Bits(IWord, 0, 6), 6)) % 65536

\* the word a read of the address a gives: at 0xFE00 the read polls the keyboard
\* and gives 0x8000, elsewhere it gives the cell
Given(m, a) == IF a = 65024 THEN 32768 ELSE MemAt(m, a)

\* the PC is as the fetch left it and, of R0 .. R7, only dr may have changed
OnlyReg(dr) ==
    /\ regs[8] = (IterA + 1) % 65536
    /\ \A r \in 0 .. 7 : r # dr => regs[r] = call.regs[r]

\* a poll of the keyboard took one byte: 0x8000 is at 0xFE00, the byte at 0xFE02
PolledOnce ==
    /\ Len(consumed) = 1
    /\ MemAt(mem, 65024) = 32768
    /\ MemAt(mem, 65026) = consumed[1]

\* a load into dr of the word at a, as the specification states it
LoadedAsStated(dr, a) ==
    /\ res = NoErr
    /\ regs[dr] = Given(call.mem, a)
    /\ regs[9] = FlagOf(regs[dr])
    /\ OnlyReg(dr)

\* C18 as the specification states it: LD, LDR and LDI set DR to the addressed
\* word, whatever the address, set COND from DR and change no other register.
C18_AsStated ==
    /\ Ran(2) => LoadedAsStated(Bits(IWord, 9, 3), PCRel9)
    /\ Ran(6) => LoadedAsStated(Bits(IWord, 9, 3), BaseRel6)
    /\ Ran(10) => LoadedAsStated(Bits(IWord, 9, 3), Given(call.mem, PCRel9))

\* a load into dr of the word at a; polls says that one of its reads is of 0xFE00
Loaded(dr, a, polls) ==
    IF ~polls
    THEN /\ LoadedAsStated(dr, a)
         /\ mem = call.mem
         /\ consumed = <<>>
    ELSE \/ /\ res = "STDINRead"
            /\ consumed = <<>>
            /\ OnlyReg(dr) /\ regs[dr] = call.regs[dr] /\ regs[9] = call.regs[9]
         \/ /\ LoadedAsStated(dr, a)
            /\ PolledOnce
            /\ SameExcept(call.mem, mem, {65024, 65026})

\* C18, amended: LD, LDR and LDI fetched from A set DR to the addressed word,
\* set COND from DR and change no other register, and leave the memory as it
\* was, when no address they read is 0xFE00; a read of 0xFE00 polls the
\* keyboard: with a byte of host input it gives 0x8000, leaves 0x8000 at 0xFE00
\* and the byte at 0xFE02, and the load goes on as stated; with no host input
\* the load fails with STDINRead and changes neither DR nor COND.
C18_Loads ==
    /\ Ran(2) => Loaded(Bits(IWord, 9, 3), PCRel9, PCRel9 = 65024)
    /\ Ran(6) => Loaded(Bits(IWord, 9, 3), BaseRel6, BaseRel6 = 65024)
    /\ Ran(10) => Loaded(Bits(IWord, 9, 3), Given(call.mem, PCRel9),
                         PCRel9 = 65024 \/ Given(call.mem, PCRel9) = 65024)

\* LDI R1, #1 has run from 0x3000, where the cell 0x3002 points at 0xFE00: the
\* keyboard was polled, R1 holds 0x8000 and COND is N
C18_Witness ==
    /\ Ran(10) /\ IWord = 41473 /\ IterA = 12288 /\ MemAt(call.mem, 12290) = 65024
    /\ res = NoErr /\ regs[1] = 32768 /\ regs[9] = 4 /\ consumed = <<97>>

\* C19: LEA fetched from A sets DR to A + 1 + sign_extend(bits 8..0, 9) modulo
\* 2^16 and sets COND from DR; it neither reads nor writes memory: no cell
\* changes and, the address being 0xFE00 or not, no host input is taken.
C19_Lea ==
    Ran(14)
    => /\ res = NoErr
       /\ regs[Bits(IWord, 9, 3)] = PCRel9
       /\ regs[9] = FlagOf(regs[Bits(IWord, 9, 3)])
       /\ mem = call.mem
       /\ consumed = <<>>

\* LEA R5, #0 has run from 0xFDFF: R5 holds 0xFE00, COND is N, and the keyboard
\* status still holds what it held
C19_Witness ==
    /\ Ran(14) /\ IWord = 59904 /\ IterA = 65023
    /\ regs[5] = 65024 /\ regs[9] = 4 /\ MemAt(mem, 65024) = 5 /\ consumed = <<>>

\* no register but the PC, which is as the fetch left it, has changed
RegsKept ==
    /\ regs[8] = (IterA + 1) % 65536
    /\ \A r \in 0 .. 9 : r # 8 => regs[r] = call.regs[r]

\* a store of the register sr at the address t, as the specification states it;
\* framed says that no other cell may have changed
StoredAsStated(sr, t, framed) ==
    /\ res = NoErr
    /\ MemAt(mem, t) = call.regs[sr]
    /\ RegsKept
    /\ framed => SameExcept(call.mem, mem, {t})

\* C20 as the specification states it: ST, STR and STI write the register in
\* bits 11..9 to the address they name, whatever the address, and change no
\* register; no other cell changes unless the pointer cell of STI is 0xFE00.
C20_AsStated ==
    /\ Ran(3) => StoredAsStated(Bits(IWord, 9, 3), PCRel9, TRUE)
    /\ Ran(7) => StoredAsStated(Bits(IWord, 9, 3), BaseRel6, TRUE)
    /\ Ran(11) => StoredAsStated(Bits(IWord, 9, 3), Given(call.mem, PCRel9),
                                 PCRel9 # 65024)

\* an STI whose pointer cell is 0xFE00
StoredThroughKeyboard(sr) ==
    \/ /\ res = "STDINRead"
       /\ consumed = <<>>
       /\ RegsKept
       /\ MemAt(mem, 65024) = 32768
       /\ SameExcept(call.mem, mem, {65024})
    \/ /\ StoredAsStated(sr, 32768, FALSE)
       /\ PolledOnce
       /\ SameExcept(call.mem, mem, {32768, 65024, 65026})

\* C20, amended: ST, STR and STI write the register in bits 11..9 verbatim to
\* the address they name, change no register and no other cell and take no
\* host input, when the pointer cell of STI is not 0xFE00; when it is, the read
\* of the pointer polls the keyboard: with a byte of host input the pointer is
\* 0x8000, the register is written there and the only other cells that change
\* are 0xFE00 and 0xFE02; with no host input STI fails with STDINRead, having
\* written 0x8000 at 0xFE00 and nothing else.
C20_Stores ==
    /\ Ran(3) => (StoredAsStated(Bits(IWord, 9, 3), PCRel9, TRUE) /\ consumed = <<>>)
    /\ Ran(7) => (StoredAsStated(Bits(IWord, 9, 3), BaseRel6, TRUE) /\ consumed = <<>>)
    /\ Ran(11)
       => IF PCRel9 # 65024
          THEN /\ StoredAsStated(Bits(IWord, 9, 3), MemAt(call.mem, PCRel9), TRUE)
               /\ consumed = <<>>
          ELSE StoredThroughKeyboard(Bits(IWord, 9, 3))

\* STI R0, #0 has run from 0xFDFF with R0 = 0xFFFF: the pointer cell is 0xFE00,
\* the keyboard was polled and 0xFFFF is at 0x8000
C20_Witness ==
    /\ Ran(11) /\ IWord = 45056 /\ IterA = 65023 /\ call.regs[0] = 65535
    /\ res = NoErr /\ MemAt(mem, 32768) = 65535 /\ MemAt(call.mem, 32768) = 4369
    /\ MemAt(mem, 65026) = 97 /\ consumed = <<97>>

(***************************************************************************)
(* The trap routines, checked on one iteration whose word is a TRAP.       *)
(***************************************************************************)
\* the longest string the memories drawn hold
StrMax == 8

\* the iteration has run and its word is a TRAP with the vector vect
TrapRan(vect) == Ran(15) /\ IWord % 256 = vect

\* the words of m from the address a up to the first 0, n of them at most
RECURSIVE StrAt(_, _, _)
StrAt(m, a, n) ==
    IF n = 0 \/ MemAt(m, a) = 0 THEN <<>>
    ELSE <<MemAt(m, a)>> \o StrAt(m, (a + 1) % 65536, n - 1)

\* the string at R0 before the trap; it ends within StrMax words and neither a
\* word of it nor its terminator is the keyboard status
TrapStr == StrAt(call.mem, call.regs[0], StrMax)
PlainStr ==
    /\ Len(TrapStr) < StrMax
    /\ \A i \in 0 .. Len(TrapStr) : (call.regs[0] + i) % 65536 # 65024

\* the host refused an output call
Refused == res \in {"STDOUTWrite", "STDOUTFlush"}

\* the low bytes of the words of a string
LowBytes(w) == [i \in 1 .. Len(w) |-> w[i] % 256]

\* C21 as the specification states it: PUTS started at a string of k non-zero
\* words, whatever their values, succeeds and emits exactly the k low bytes in
\* address order and then one flush (here unless the host refuses an output
\* call).
C21_AsStated ==
    (TrapRan(34) /\ PlainStr)
    => \/ Refused
       \/ /\ res = NoErr
          /\ output = LowBytes(TrapStr) \o <<Flush>>
          /\ mem = call.mem

\* C22 as the specification states it: OUT writes the one byte R0 AND 0xFF and
\* succeeds for every value of R0 (here unless the host refuses the write),
\* leaving the registers R0..R6 and COND and the memory unchanged.
C22_AsStated ==
    TrapRan(33)
    => \/ Refused
       \/ /\ res = NoErr
          /\ output = <<call.regs[0] % 256>>
          /\ mem = call.mem
          /\ \A r \in (0 .. 6) \cup {9} : regs[r] = call.regs[r]

\* the bytes of a string of packed words: of each word the low byte and then the
\* high byte when it is not 0
RECURSIVE PackedBytes(_)
PackedBytes(w) ==
    IF w = <<>> THEN <<>>
    ELSE <<Head(w) % 256>>
         \o (IF Head(w) \div 256 # 0 THEN <<Head(w) \div 256>> ELSE <<>>)
         \o PackedBytes(Tail(w))

\* a is the start of b
IsPrefix(a, b) == Len(a) <= Len(b) /\ SubSeq(b, 1, Len(a)) = a

\* the words of the string at R0 that lie before the keyboard status
BeforeKeyboard ==
    IF PlainStr THEN TrapStr
    ELSE SubSeq(TrapStr, 1, (65024 + 65536 - call.regs[0]) % 65536)

\* a trap changes no register but R7 and the PC, which hold the address after it
OnlyLinked ==
    /\ regs[7] = (IterA + 1) % 65536
    /\ regs[8] = (IterA + 1) % 65536
    /\ \A r \in (0 .. 6) \cup {9} : regs[r] = call.regs[r]

C23_AtKeyboard ==
    /\ TrapRan(36) /\ IterA = 65023 /\ call.regs[0] = 65023
    /\ res \in Relocks
    /\ output = <<36, 240>>

\* C24: GETC takes exactly one byte b of the host input, sets R0 to b (at most
\* 0x00FF) and COND to Z when b = 0 and to P otherwise, never to N, and writes
\* nothing to the host output; when the read fails it fails with STDINRead and
\* R0 and COND are as they were.  In both cases the memory is unchanged.
C24_GetC ==
    TrapRan(32)
    => /\ output = <<>> /\ printed = <<>>
       /\ mem = call.mem
       /\ \/ /\ res = NoErr
             /\ Len(consumed) = 1
             /\ regs[0] = consumed[1] /\ regs[0] <= 255
             /\ regs[9] = (IF consumed[1] = 0 THEN 2 ELSE 1)
          \/ /\ res = "STDINRead"
             /\ consumed = <<>>
             /\ regs[0] = call.regs[0] /\ regs[9] = call.regs[9]

\* GETC has run with R0 = 0xFFFF and COND = N and has read the byte 0xFF: R0 is
\* 0x00FF and COND is P
C24_Witness ==
    /\ TrapRan(32) /\ IWord = 61472 /\ IterA = 12288
    /\ call.regs[0] = 65535 /\ call.regs[9] = 4
    /\ res = NoErr /\ consumed = <<255>>
    /\ regs[0] = 255 /\ regs[9] = 1

\* GETC has run with no byte of host input left
C24_NoInput ==
    /\ TrapRan(32) /\ call.regs[0] = 65535 /\ call.regs[9] = 4
    /\ res = "STDINRead" /\ regs[0] = 65535 /\ regs[9] = 4

\* C25 as the specification states it: IN writes the prompt to the output
\* stream it is given, reads one byte, echoes it to the same stream after the
\* prompt, sets R0 to the byte and COND from R0, and flushes the stream (here
\* unless the host has no byte to give or refuses an output call).
C25_AsStated ==
    TrapRan(35)
    => \/ Refused
       \/ res = "STDINRead"
       \/ /\ res = NoErr
          /\ Len(consumed) = 1
          /\ output = Prompt \o <<consumed[1], Flush>>
          /\ regs[0] = consumed[1]
          /\ regs[9] = FlagOf(consumed[1])

\* the operation of each opcode nibble, 0 to 15
OpNames ==
    <<"Br", "Add", "Ld", "St", "Jsr", "And", "Ldr", "Str", "illegal", "Not",
      "Ldi", "Sti", "Jmp", "illegal", "Lea", "Trap">>

C26_Rti == Ran(8) /\ IWord = 32768 /\ res = "Conversion"

\* the routine of each trap vector, 0x20 to 0x25
TrapNames == <<"GetC", "Out", "Puts", "In", "PutsP", "Halt">>

\* what tells the six routines apart in the state after a trap that succeeded
RoutineRan(vect) ==
    CASE vect = 32 -> Len(consumed) = 1 /\ output = <<>> /\ printed = <<>> /\ running
      [] vect = 33 -> consumed = <<>> /\ output = <<call.regs[0]>> /\ running
      [] vect = 34 -> /\ consumed = <<>> /\ printed = <<>> /\ running
                      /\ output = LowBytes(TrapStr) \o <<Flush>>
      [] vect = 35 -> /\ Len(consumed) = 1 /\ printed = Prompt /\ running
                      /\ output = <<consumed[1], Flush>>
      [] vect = 36 -> /\ consumed = <<>> /\ printed = <<>> /\ running
                      /\ output = PackedBytes(TrapStr) \o <<Flush>>
      [] vect = 37 -> /\ consumed = <<>> /\ printed = <<>> /\ ~running
                      /\ output = HaltBytes \o <<Flush>>

\* C27: a TRAP whose low 8 bits are not 0x20 .. 0x25 fails with Conversion and
\* takes no host input and gives no host output (nor does it change the memory
\* or stop the machine); the six values dispatch to GETC, OUT, PUTS, IN, PUTSP
\* and HALT in this order, whatever the bits 11..8.
C27_Vectors ==
    Ran(15)
    => IF IWord % 256 \in 32 .. 37
       THEN /\ last.trap_code = TrapNames[(IWord % 256) - 31]
            /\ res = NoErr => RoutineRan(IWord % 256)
       ELSE /\ last.trap_code = "unknown"
            /\ res = "Conversion"
            /\ consumed = <<>> /\ output = <<>> /\ printed = <<>>
            /\ mem = call.mem
            /\ running
            /\ OnlyLinked

\* TRAP xFF has run: it failed with Conversion without host input or output
C27_Witness ==
    /\ Ran(15) /\ IWord = 61695 /\ IterA = 12288
    /\ res = "Conversion"
    /\ consumed = <<>> /\ output = <<>> /\ printed = <<>>

\* TRAP x25 with the bits 11..8 set has run HALT
C27_Halted ==
    /\ Ran(15) /\ IWord = 65317 /\ res = NoErr /\ ~running
    /\ output = HaltBytes \o <<Flush>>

(***************************************************************************)
(* The state the dispatch loop starts from.                                *)
(***************************************************************************)
\* the registers and the running flag as the first iteration finds them
StartRegs(rs, run) ==
    /\ rs[8] = 12288
    /\ rs[9] = 2
    /\ \A r \in 0 .. 7 : rs[r] = 0
    /\ run = TRUE

\* C28: in the state in which the first iteration starts the PC is 0x3000, COND
\* is Z, R0..R7 are 0, the running flag is true and every cell no loaded image
\* covers is 0: the load leaves such cells 0 and the start of the machine
\* leaves the memory as the load made it.
C28_Start ==
    /\ [][(phase = "start" /\ phase' = "loaded")
          => \A a \in (DOMAIN mem' \cup {0, 12288, 65024, 65535}) \ Covered(args) :
                MemAt(mem', a) = 0]_vars
    /\ [][(phase = "loaded" /\ phase' = "run")
          => (mem' = mem /\ steps' = 0 /\ StartRegs(regs', running'))]_vars
    /\ [](phase = "run" /\ steps = 0 => StartRegs(regs, running))

\* the loop is about to start on the images laid at 0x2FFF .. 0x3001: the
\* registers are as stated, the three cells hold their words and no other cell
\* holds anything
C28_Witness ==
    /\ phase = "run" /\ steps = 0
    /\ StartRegs(regs, running)
    /\ MemAt(mem, 12288) = 4129
    /\ DOMAIN mem = {12287, 12288, 12289}

\* C29: after a TRAP fetched from the address A has completed successfully, R7
\* and the PC both hold A + 1 modulo 2^16: the trap saves the PC the fetch has
\* incremented and no routine changes the PC.
C29_Resume ==
    (Ran(15) /\ res = NoErr)
    => /\ regs[7] = (IterA + 1) % 65536
       /\ regs[8] = (IterA + 1) % 65536

\* OUT has run from 0xFFFF with R7 = 0xFE00 and has written its byte: R7 and
\* the PC are 0
C29_Witness ==
    /\ Ran(15) /\ IWord = 61473 /\ IterA = 65535 /\ call.regs[7] = 65024
    /\ res = NoErr /\ output = <<0>>
    /\ regs[7] = 0 /\ regs[8] = 0

\* the opcodes that write a destination register and set the flags from it
FlagOps == {1, 2, 5, 6, 9, 10, 14}

\* C30: COND changes only through update_flags.  BR, JMP, JSR/JSRR, ST, STI,
\* STR and the traps OUT, PUTS, PUTSP and HALT leave COND as it was, as does a
\* word that is no instruction; when COND changes, the instruction is one that
\* writes a register, it has succeeded and COND is the flag of that register.
\* No 3-bit field names COND or the PC: the destination of such an instruction
\* is one of R0..R7, the PC staying at the address after the instruction, the
\* base of JMP is one of R0..R7, and no field fails to name a register.
C30_Cond ==
    FetchedStored
    => /\ (\/ IWord \div 4096 \in {0, 3, 4, 7, 8, 11, 12, 13}
           \/ IWord \div 4096 = 15 /\ IWord % 256 \notin {32, 35})
          => regs[9] = call.regs[9]
       /\ regs[9] # call.regs[9]
          => /\ res = NoErr
             /\ \/ /\ IWord \div 4096 \in FlagOps
                   /\ regs[9] = FlagOf(regs[Bits(IWord, 9, 3)])
                \/ /\ IWord \div 4096 = 15 /\ IWord % 256 \in {32, 35}
                   /\ regs[9] = FlagOf(regs[0])
       /\ IWord \div 4096 \in FlagOps
          => /\ regs[8] = (IterA + 1) % 65536
             /\ \A r \in 0 .. 7 : r # Bits(IWord, 9, 3) => regs[r] = call.regs[r]
       /\ IWord \div 4096 = 12
          => /\ regs[8] = call.regs[Bits(IWord, 6, 3)]
             /\ \A r \in 0 .. 7 : regs[r] = call.regs[r]
       /\ IWord \div 4096 \notin {8, 13, 15} => res # "Conversion"

\* JMP R7 has run with R7 = 0x3000 and COND = N: the PC is 0x3000 and COND is
\* still N
C30_Witness ==
    /\ Ran(12) /\ IWord = 49600 /\ IterA = 65535
    /\ call.regs[7] = 12288 /\ call.regs[9] = 4
    /\ res = NoErr /\ regs[8] = 12288 /\ regs[9] = 4

\* HALT has run with COND = N and has left it so
C30_Halt == TrapRan(37) /\ call.regs[9] = 4 /\ res = NoErr /\ ~running /\ regs[9] = 4

(***************************************************************************)
(* Failures: the width 0, the keyboard status, the errors of the loop.     *)
(***************************************************************************)
\* C31: sign_extend(x, 0) fails with Arithmetic for every x, in both builds,
\* and gives no value.
C31_WidthZero ==
    (call.f = "sign_extend" /\ call.done /\ call.bit_count = 0)
    => call.ret = Fail("Arithmetic")

\* sign_extend(0xFFFF, 0) has been called and has failed with Arithmetic
C31_Witness ==
    /\ call.f = "sign_extend" /\ call.done
    /\ call.bit_count = 0 /\ call.x = 65535
    /\ call.ret.err = "Arithmetic"

\* C32: mem_read of 0xFE00 with no key to take leaves 0 at 0xFE00, changes no
\* other cell (0xFE02 is as it was), takes no host input and returns 0; with a
\* key it leaves 0x8000 at 0xFE00 and the byte at 0xFE02, takes that byte and
\* returns 0x8000; of any other address it returns the word stored there and
\* changes nothing.  It never fails.
C32_Polling ==
    (phase = "mem" /\ call.f = "mem_read")
    => /\ call.err = NoErr
       /\ IF call.addr # 65024
          THEN /\ call.val = MemAt(call.before, call.addr)
               /\ mem = call.before
               /\ call.taken = <<>>
          ELSE IF call.host = <<>>
          THEN /\ call.val = 0
               /\ MemAt(mem, 65024) = 0
               /\ MemAt(mem, 65026) = MemAt(call.before, 65026)
               /\ SameExcept(call.before, mem, {65024})
               /\ call.taken = <<>>
          ELSE /\ call.val = 32768
               /\ MemAt(mem, 65024) = 32768
               /\ MemAt(mem, 65026) = Head(call.host)
               /\ SameExcept(call.before, mem, {65024, 65026})
               /\ call.taken = <<Head(call.host)>>

\* 0xFE00 held 0x8000 and 0xFE02 held 97, left by a read that took a key, when
\* mem_read polled 0xFE00 with no key there: 0xFE00 is 0 and 0xFE02 still 97
C32_Witness ==
    /\ phase = "mem" /\ call.f = "mem_read" /\ call.addr = 65024
    /\ call.host = <<>> /\ call.val = 0
    /\ MemAt(call.before, 65024) = 32768 /\ MemAt(call.before, 65026) = 97
    /\ MemAt(mem, 65024) = 0 /\ MemAt(mem, 65026) = 97

\* mem_read has polled 0xFE00 and taken the key 97
C32_Key ==
    /\ phase = "mem" /\ call.f = "mem_read" /\ call.addr = 65024
    /\ call.val = 32768 /\ call.taken = <<97>> /\ MemAt(mem, 65026) = 97

\* the errors VM::run can return
Returned == {"Conversion", "STDINRead", "STDOUTWrite", "STDOUTFlush"}

\* what makes an iteration fail with Conversion: a word fetched whose nibble is
\* no operation (the word fetched at 0xFE00 is 0x8000), an unknown trap vector,
\* a character above 0x00FF in OUT or in the string of PUTS
ConversionCause ==
    \/ IterA = 65024
    \/ IWord \div 4096 \in {8, 13}
    \/ IWord \div 4096 = 15 /\ IWord % 256 \notin 32 .. 37
    \/ IWord \div 4096 = 15 /\ IWord % 256 = 33 /\ call.regs[0] > 255
    \/ /\ IWord \div 4096 = 15 /\ IWord % 256 = 34
       /\ \E i \in 1 .. Len(TrapStr) : TrapStr[i] > 255

\* C33: an iteration ends without an error, with one of Conversion, STDINRead,
\* STDOUTWrite and STDOUTFlush, or, in PUTS and PUTSP when the scan reaches
\* 0xFE00, without returning; never with Arithmetic, InvalidIndex or
\* NoMoreBytes.  It fails with Conversion only on an illegal opcode, an unknown
\* trap vector or a character of OUT or PUTS above 0x00FF, with STDINRead only
\* when the host input has no byte to give, and with STDOUTWrite or
\* STDOUTFlush only in a trap.
C33_Errors ==
    (call.f = "iteration" /\ call.done)
    => /\ res \in {NoErr} \cup Returned \cup Relocks
       /\ res \notin {"Arithmetic", "InvalidIndex", "NoMoreBytes"}
       /\ res = "Conversion" => ConversionCause
       /\ res = "STDINRead" => consumed = <<>>
       /\ res \in {"STDOUTWrite", "STDOUTFlush"} => TrapRan(IWord % 256)
       /\ res \in Relocks => (TrapRan(34) \/ TrapRan(36)) /\ ~PlainStr

\* PUTS has run on a string whose first word is 0xBEEF and has failed with
\* Conversion, nothing written
C33_Witness ==
    /\ TrapRan(34) /\ call.regs[0] = 12544 /\ MemAt(call.mem, 12544) = 48879
    /\ res = "Conversion" /\ output = <<>>

\* the iteration has run with the PC at the keyboard status
FetchedAtKeyboard == call.f = "iteration" /\ call.done /\ IterA = 65024

\* C34 as the specification states it: with the PC at 0xFE00 the fetch takes
\* one byte of host input, leaves 0x8000 at 0xFE00 and the byte at 0xFE02, the
\* word fetched is 0x8000 and the iteration fails with Conversion.
C34_AsStated ==
    FetchedAtKeyboard
    => /\ Len(consumed) = 1
       /\ MemAt(mem, 65024) = 32768
       /\ MemAt(mem, 65026) = consumed[1]
       /\ last.instr = 32768
       /\ res = "Conversion"

\* C34, amended: with the PC at 0xFE00 and a byte of host input to take, the
\* fetch takes that byte, leaves 0x8000 at 0xFE00 and the byte at 0xFE02, the
\* word fetched is 0x8000 whatever was stored at 0xFE00 and the iteration fails
\* with Conversion; with no byte to take the iteration fails with STDINRead,
\* 0x8000 left at 0xFE00.  In both cases no other cell and no register but the
\* PC, now 0xFE01, has changed.
C34_Probe ==
    FetchedAtKeyboard
    => /\ RegsKept
       /\ output = <<>>
       /\ MemAt(mem, 65024) = 32768
       /\ IF consumed # <<>>
          THEN /\ Len(consumed) = 1
               /\ MemAt(mem, 65026) = consumed[1]
               /\ SameExcept(call.mem, mem, {65024, 65026})
               /\ last.instr = 32768 /\ last.op_code = "illegal"
               /\ res = "Conversion"
          ELSE /\ SameExcept(call.mem, mem, {65024})
               /\ last.op_code = "none"
               /\ res = "STDINRead"

\* the PC was 0xFE00, where the word 0x1001 of an ADD was stored: the fetch took
\* the byte 97 and the iteration failed with Conversion, the PC at 0xFE01
C34_Witness ==
    /\ FetchedAtKeyboard /\ IWord = 4097
    /\ consumed = <<97>> /\ MemAt(mem, 65026) = 97 /\ MemAt(mem, 65024) = 32768
    /\ res = "Conversion" /\ regs[8] = 65025

\* C35: a JSRR whose base register is R7, fetched from A, does not go to the
\* address R7 held: R7 is set to A + 1 before the base register is read, so
\* afterwards the PC and R7 are both A + 1, and nothing else has changed.
C35_BaseR7 ==
    (Ran(4) /\ Bits(IWord, 11, 1) = 0 /\ Bits(IWord, 6, 3) = 7)
    => /\ res = NoErr
       /\ regs[8] = (IterA + 1) % 65536
       /\ regs[7] = (IterA + 1) % 65536
       /\ \A r \in (0 .. 6) \cup {9} : regs[r] = call.regs[r]
       /\ mem = call.mem

\* JSRR R7 has run from 0x3000 with R7 = 0xFE00: the PC is 0x3001, not 0xFE00
C35_Witness ==
    /\ Ran(4) /\ IWord = 16832 /\ IterA = 12288 /\ call.regs[7] = 65024
    /\ regs[8] = 12289 /\ regs[7] = 12289

\* C36: an iteration that fails does not leave the machine as it found it: the
\* PC is one past the address it fetched from, also when the fetch itself
\* failed, and a TRAP with an unknown vector has set R7 to that PC before it
\* fails with Conversion, every other register, the running flag and the memory
\* unchanged.
C36_Failing ==
    /\ (call.f = "iteration" /\ call.done /\ res \in Returned)
       => regs[8] = (IterA + 1) % 65536
    /\ (Ran(15) /\ IWord % 256 \notin 32 .. 37)
       => /\ res = "Conversion"
          /\ OnlyLinked
          /\ running
          /\ mem = call.mem

\* TRAP x00 has failed from 0xFFFF with R7 = 0xFE00 before it: the PC and R7 are 0
C36_Witness ==
    /\ Ran(15) /\ IWord = 61440 /\ IterA = 65535 /\ call.regs[7] = 65024
    /\ res = "Conversion" /\ regs[8] = 0 /\ regs[7] = 0

\* the fetch at 0xFE00 has failed for want of a byte and the PC is 0xFE01
C36_FetchFailed ==
    /\ FetchedAtKeyboard /\ res = "STDINRead" /\ regs[8] = 65025

\* C37: when the host input has no byte for a read of 0xFE00, Memory::read
\* fails with STDINRead with 0xFE02 as it was but with 0x8000 already at
\* 0xFE00, the status being written before the byte is read; no other cell has
\* changed and no input is taken.
C37_StatusFirst ==
    (phase = "mem" /\ call.f = "read" /\ call.addr = 65024 /\ call.host = <<>>)
    => /\ call.err = "STDINRead"
       /\ MemAt(mem, 65024) = 32768
       /\ MemAt(mem, 65026) = MemAt(call.before, 65026)
       /\ SameExcept(call.before, mem, {65024})

\* 0xFE00 held 1 and 0xFE02 held 0xFFFF when a read of 0xFE00 failed: 0xFE00
\* holds 0x8000 and 0xFE02 still 0xFFFF
C37_Witness ==
    /\ phase = "mem" /\ call.f = "read" /\ call.addr = 65024 /\ call.host = <<>>
    /\ call.err = "STDINRead"
    /\ MemAt(call.before, 65024) = 1 /\ MemAt(call.before, 65026) = 65535
    /\ MemAt(mem, 65024) = 32768 /\ MemAt(mem, 65026) = 65535

\* C38 as the specification states it: PUTS returns for every memory and every
\* R0: it stops at the first word equal to 0 or fails with Conversion at the
\* first word above 0x00FF, a scan that reaches 0xFE00 reading 0x8000 there
\* (here unless a call of the host fails: no byte to give, an output call
\* refused).
C38_AsStated ==
    (TrapRan(34) /\ Len(TrapStr) < StrMax)
    => \/ Refused
       \/ res = "STDINRead"
       \/ res = NoErr /\ output = LowBytes(TrapStr) \o <<Flush>>
       \/ /\ res = "Conversion"
          /\ \E i \in 1 .. Len(TrapStr) :
                /\ (TrapStr[i] > 255 \/ (call.regs[0] + i - 1) % 65536 = 65024)
                /\ output = LowBytes(SubSeq(TrapStr, 1, i - 1))

(***************************************************************************)
(* The running flag and the return of the loop.                            *)
(***************************************************************************)
\* C39: the loop returns Ok only with the running flag false; the flag becomes
\* false only in an iteration that runs HALT and succeeds, its bytes and its
\* flush delivered, and never becomes true again; while the flag is true and
\* no iteration has failed the loop does not return: it leaves that state only
\* through an iteration that failed.
C39_Running ==
    /\ [](res = "Ok" => (~running /\ last.trap_code = "Halt"))
    /\ [][(running /\ ~running')
          => /\ phase = "run" /\ steps' = steps + 1
             /\ last'.trap_code = "Halt"
             /\ res' = NoErr
             /\ output' = output \o HaltOutput]_vars
    /\ [][~running => ~running']_vars
    /\ [][(phase = "run" /\ running /\ res = NoErr /\ res' # NoErr)
          => (steps' = steps + 1 /\ res' # "Ok")]_vars

\* the loop has returned Ok after three iterations, the last of them a HALT
C39_Witness ==
    /\ phase = "run" /\ res = "Ok" /\ ~running
    /\ steps = 3 /\ last.trap_code = "Halt"

=============================================================================
